---------------------------- MODULE Spec2Model ----------------------------
(***************************************************************************)
(* Math worksheet generator: the ProblemGenerator (generateProblems and    *)
(* its helpers), the MathProblem value and the LayoutEngine                *)
(* (calculateLayout, its optimisation passes and its validation).          *)
(*                                                                         *)
(* Numbers.  Math.random() is an input: a draw k stands for the value     *)
(* k / RandomGrain, and the draws taken are the least (0) and the greatest *)
(* (RandomGrain-1) of that grain.  Layout coordinates are exact rationals  *)
(* kept as integer numerators over one denominator per layout (field den). *)
(***************************************************************************)
EXTENDS Integers, Sequences, FiniteSets, TLC

(***************************************************************************)
(* Bounds of the model.                                                    *)
(***************************************************************************)
\* Math.random() returns a multiple of 1/RandomGrain in [0, 1).
RandomGrain == 100
\* Largest count argument of a generation call.
MaxCount == 2
\* Largest config.problemCount of a generation call.
MaxConfigCount == 1
\* Longest problem list handed to calculateLayout.
MaxProblems == 53
\* Largest operand handed to the MathProblem constructor.
MaxOperand == 3
\* Most keys of one options or updates object of a WorksheetConfig.
MaxKeys == 2
\* Most WorksheetConfig objects one ConfigurationManager creates.
MaxInstances == 1
\* Most updatePreview calls, and the time in ms up to which they are made.
MaxRequests == 4
MaxTime == 1200
MaxSaves == 12
MaxOperations == 4

(***************************************************************************)
(* Program constants.                                                      *)
(***************************************************************************)
\* ProblemGenerator constructor: this.maxRetries = 100
maxRetries == 100
\* generateProblems: count || config.problemCount || 20
DefaultProblemCount == 20
\* VALIDATION_RULES.problemCount
ProblemCountMin == 1
ProblemCountMax == 50
\* WorksheetConfig.getDefaultProblemCount, of a layout that is not known
DefaultProblemsPerPage == 20
\* generateProblemsWithRatioControl: ratios are counted in thousandths, so
\* 1.0 is RatioScale and the tolerance 0.01 is RatioTolerance
RatioScale == 1000
RatioTolerance == 10
\* PERFORMANCE_CONFIG.debounceDelay
debounceDelay == 300
maxHistorySize == 10

\* DIFFICULTY_LEVELS (name omitted)
DIFFICULTY_LEVELS ==
  [within10  |-> [minNumber |-> 1, maxNumber |-> 10],
   within20  |-> [minNumber |-> 1, maxNumber |-> 20],
   within50  |-> [minNumber |-> 1, maxNumber |-> 50],
   within100 |-> [minNumber |-> 1, maxNumber |-> 100]]

Difficulties == {"within10", "within20", "within50", "within100"}

\* OPERATION_TYPES; the names stand for the source's display names
\* (addition, subtraction, addition-subtraction mixed).
OPERATION_TYPES ==
  [addition    |-> [name |-> "jiafa",      symbol |-> "+"],
   subtraction |-> [name |-> "jianfa",     symbol |-> "-"],
   mixed       |-> [name |-> "jiajianhunhe", symbol |-> "+-"]]

OperationTypes == {"addition", "subtraction", "mixed"}

(***************************************************************************)
(* Values.                                                                 *)
(***************************************************************************)
\* JavaScript null for a problem, a thrown Error, a missing argument.
NoProblem == [kind |-> "null"]
Thrown    == [kind |-> "error"]
NoConfig  == [kind |-> "null"]
NoCount   == -1

\* A WorksheetConfig as the generator reads it (validated at construction:
\* enums valid, problemCount an integer within VALIDATION_RULES).
WorksheetConfig(difficulty, operationType, problemCount) ==
  [kind |-> "WorksheetConfig", difficulty |-> difficulty,
   operationType |-> operationType, problemCount |-> problemCount]

getDifficultyConfig(cfg) == DIFFICULTY_LEVELS[cfg.difficulty]
getOperationConfig(cfg)  == OPERATION_TYPES[cfg.operationType]

(***************************************************************************)
(* MathProblem.                                                            *)
(***************************************************************************)
\* A number that is not an integer (1.5, NaN, a numeric string).
NonInteger == "1.5"

\* Number.isInteger(v): the value is told from its printed form, since a
\* number that is not an integer is not comparable with the integers.
NumberIsInteger(v) == ToString(v) # ToString(NonInteger)

\* MathProblem.validate without its last check, of a negative difference.
validateAllowingNegative(p) ==
  /\ NumberIsInteger(p.operand1) /\ p.operand1 >= 0
  /\ NumberIsInteger(p.operand2) /\ p.operand2 >= 0
  /\ p.operator \in {"+", "-"}
  /\ NumberIsInteger(p.result)
  /\ p.result = (IF p.operator = "+" THEN p.operand1 + p.operand2
                                     ELSE p.operand1 - p.operand2)

\* MathProblem.validate: TRUE when validate() returns, FALSE when it throws.
\* The expected result of integer operands is an integer, so a result that
\* is not an integer is !== to it.
validate(p) ==
  /\ NumberIsInteger(p.operand1) /\ p.operand1 >= 0
  /\ NumberIsInteger(p.operand2) /\ p.operand2 >= 0
  /\ p.operator \in {"+", "-"}
  /\ NumberIsInteger(p.result)
  /\ p.result = (IF p.operator = "+" THEN p.operand1 + p.operand2
                                     ELSE p.operand1 - p.operand2)
  /\ ~(p.operator = "-" /\ p.result < 0)

\* new MathProblem(operand1, operand2, operator, result): the fields are
\* stored, then validate() runs; a failed validation throws.
MathProblem(operand1, operand2, operator, result) ==
  LET p == [kind |-> "MathProblem", operand1 |-> operand1,
            operand2 |-> operand2, operator |-> operator, result |-> result]
  IN IF validate(p) THEN p ELSE Thrown

\* MathProblem.fitsInDifficulty
fitsInDifficulty(p, difficultyLevel) ==
  /\ difficultyLevel \in DOMAIN DIFFICULTY_LEVELS
  /\ LET d == DIFFICULTY_LEVELS[difficultyLevel]
     IN /\ p.operand1 >= d.minNumber /\ p.operand1 <= d.maxNumber
        /\ p.operand2 >= d.minNumber /\ p.operand2 <= d.maxNumber
        /\ p.result >= 0

(***************************************************************************)
(* ProblemGenerator: pure helpers.                                         *)
(***************************************************************************)
\* The draws of Math.random(): k stands for k / RandomGrain; the least and
\* the greatest value of [0, 1) at that grain.
Draws == {0, RandomGrain - 1}

\* randomInt scaling the draw by one value too many (max - min + 2).
randomIntOneTooMany(min, max, k) == ((k * (max - min + 2)) \div RandomGrain) + min

\* randomInt(min, max) with Math.random() = k / RandomGrain:
\* Math.floor(Math.random() * (max - min + 1)) + min
randomInt(min, max, k) == ((k * (max - min + 1)) \div RandomGrain) + min

\* Math.random() < 0.5
lessThanHalf(k) == 2 * k < RandomGrain

\* generateSingleProblem without the operand swap, returning the fields as
\* they are, not through the validating constructor.
generateSingleProblemNoSwap(difficultyConfig, operationConfig, k1, k2, k3) ==
  LET a == randomInt(difficultyConfig.minNumber, difficultyConfig.maxNumber, k1)
      b == randomInt(difficultyConfig.minNumber, difficultyConfig.maxNumber, k2)
      operator == IF operationConfig.name = "jiafa" THEN "+"
                  ELSE IF operationConfig.name = "jianfa" THEN "-"
                  ELSE IF lessThanHalf(k3) THEN "+" ELSE "-"
  IN [kind |-> "MathProblem", operand1 |-> a, operand2 |-> b,
      operator |-> operator,
      result |-> IF operator = "+" THEN a + b ELSE a - b]

\* generateSingleProblem(difficultyConfig, operationConfig); k1, k2 are the
\* draws of the two operands, k3 the draw of the mixed-mode operator.
generateSingleProblem(difficultyConfig, operationConfig, k1, k2, k3) ==
  LET a == randomInt(difficultyConfig.minNumber, difficultyConfig.maxNumber, k1)
      b == randomInt(difficultyConfig.minNumber, difficultyConfig.maxNumber, k2)
      supported == operationConfig.name \in {"jiafa", "jianfa", "jiajianhunhe"}
      operator == IF operationConfig.name = "jiafa" THEN "+"
                  ELSE IF operationConfig.name = "jianfa" THEN "-"
                  ELSE IF lessThanHalf(k3) THEN "+" ELSE "-"
      swap == operator = "-" /\ a < b
      operand1 == IF swap THEN b ELSE a
      operand2 == IF swap THEN a ELSE b
      result == IF operator = "+" THEN operand1 + operand2
                                  ELSE operand1 - operand2
  IN IF supported THEN MathProblem(operand1, operand2, operator, result)
                  ELSE Thrown

\* The decimal digits of a non-negative integer, as the template literal
\* prints them.
DigitChars == <<"0", "1", "2", "3", "4", "5", "6", "7", "8", "9">>

RECURSIVE NumberToString(_)
NumberToString(n) ==
  IF n < 10 THEN <<DigitChars[n + 1]>>
            ELSE NumberToString(n \div 10) \o <<DigitChars[(n % 10) + 1]>>

\* getProblemSignature: `${operand1}${operator}${operand2}`
getProblemSignature(p) ==
  NumberToString(p.operand1) \o <<p.operator>> \o NumberToString(p.operand2)

\* isDuplicate that never finds the signature.
isDuplicateNever(p, generated) == FALSE

\* isDuplicate(problem): this.generatedProblems.has(signature)
isDuplicate(p, generated) == getProblemSignature(p) \in generated

\* validateProblem(problem, config)
validateProblem(p, cfg) ==
  /\ p.kind = "MathProblem"
  /\ validate(p)
  /\ fitsInDifficulty(p, cfg.difficulty)
  /\ ~(getOperationConfig(cfg).name = "jiafa" /\ p.operator # "+")
  /\ ~(getOperationConfig(cfg).name = "jianfa" /\ p.operator # "-")
  /\ ~(p.result < 0)

\* getNumberUsage(num): this.numberUsageTracker.get(num) || 0
getNumberUsage(tracker, num) ==
  IF num \in DOMAIN tracker THEN tracker[num] ELSE 0

\* trackNumberUsage(num)
trackNumberUsage(tracker, num) ==
  [n \in (DOMAIN tracker) \cup {num} |->
     IF n = num THEN getNumberUsage(tracker, num) + 1 ELSE tracker[n]]

\* const problemCount = count || config.problemCount || 20
\* (null and 0 are both falsy).
effectiveProblemCount(cnt, cfg) ==
  IF cnt # NoCount /\ cnt # 0 THEN cnt
  ELSE IF cfg.problemCount # 0 THEN cfg.problemCount
  ELSE DefaultProblemCount

\* The while loop without its cap on attempts.
retryLoopUncapped(p, n) == p = NoProblem

\* while (!problem && attempts < this.maxRetries)
retryLoopContinues(p, n) == p = NoProblem /\ n < maxRetries

\* A generator that gives up when the retries are exhausted.
fallbackProblemThrows(difficultyConfig, operationConfig, k1, k2, k3) == Thrown

\* if (!problem) { problem = this.generateSingleProblem(...); console.warn(...) }
fallbackProblem(difficultyConfig, operationConfig, k1, k2, k3) ==
  generateSingleProblem(difficultyConfig, operationConfig, k1, k2, k3)

(***************************************************************************)
(* State.                                                                  *)
(***************************************************************************)
VARIABLES
  pc,                  \* "idle", "generating", "returned", "threw"
  config,              \* the config argument of the running / last call
  count,               \* its count argument (NoCount when omitted)
  problemCount,        \* const problemCount
  problems,            \* const problems = []; the returned list at the end
  i,                   \* the for loop's index
  attempts,            \* let attempts
  generatedProblems,   \* this.generatedProblems (set of signatures)
  numberUsageTracker,  \* this.numberUsageTracker
  warnings,            \* slots (i + 1) for which console.warn was called
  currentLayout,       \* LayoutEngine.currentLayout
  layoutArgs,          \* the arguments of the calculateLayout call, when
                       \* the engine's last operation was one
  layoutResult,        \* what that call returned, or Thrown
  constructorArgs,     \* the arguments of the last new MathProblem(...)
  constructed,         \* the MathProblem it made, or Thrown
  worksheetConfig,     \* the fields of a WorksheetConfig instance, or NoConfig
  supplied,            \* the last call on it: new or update, and its object
  configThrew,         \* whether that call threw
  ratioConfig,         \* the ratioConfig of generateProblemsWithRatioControl
  additionTarget,      \* its local additionTarget
  additionCount,       \* its local additionCount
  subtractionCount,    \* its local subtractionCount
  constraints,         \* the constraints of generateConstrainedProblems
  instances,           \* the WorksheetConfig objects made by createConfig, in order
  currentConfig,       \* ConfigurationManager.currentConfig - 0 for null, else an index of instances
  managerCall,         \* the last call on the manager and whether it threw
  validation,          \* what the last validateConfig call returned
  now,                 \* the time in ms
  previewUpdateTimeout,\* MathWorksheetApp.previewUpdateTimeout - 0 for null, else a timer id
  timers,              \* the timers that are set - their id and the time they are due
  requests,            \* the times of the updatePreview calls - call k sets timer k
  renders,             \* the renderPreview calls started - their timer and their time
  restored,            \* what WorksheetConfig.fromJSON(worksheetConfig.toJSON()) last returned, or Thrown
  balanced,            \* the generateBalancedProblems call under way or last made - its arguments, its phase and the additions it holds
  configHistory,       \* this.configHistory of the ConfigurationManager
  accepted,            \* the configurations whose saves were pushed since the history was last empty by construction or clearHistory
  historyCall,         \* the last saveToHistory or clearHistory call and the history it found
  isExporting,         \* this.isExporting of the ImageExporter
  operations           \* the exportAndDownload and exportAndShare calls made on the ImageExporter, in call order, each with the await it is suspended at or its outcome

genVars == <<pc, config, count, problemCount, problems, i, attempts,
             generatedProblems, numberUsageTracker, warnings>>

layoutVars == <<currentLayout, layoutArgs, layoutResult>>

problemVars == <<constructorArgs, constructed>>

configVars == <<worksheetConfig, supplied, configThrew>>

ratioVars == <<ratioConfig, additionTarget, additionCount, subtractionCount>>

constrainedVars == <<constraints>>

managerVars == <<instances, currentConfig, managerCall, validation>>

previewVars == <<now, previewUpdateTimeout, timers, requests, renders>>

roundTripVars == <<restored>>

balancedVars == <<balanced>>

historyVars == <<configHistory, accepted, historyCall>>

exporterVars == <<isExporting, operations>>

vars == <<genVars, layoutVars, problemVars, configVars, ratioVars, constrainedVars, managerVars, previewVars, roundTripVars, balancedVars, historyVars, exporterVars>>

\* What the operations of one component leave alone.
notGenVars == <<layoutVars, problemVars, configVars, ratioVars, constrainedVars, managerVars, previewVars, roundTripVars, balancedVars, historyVars, exporterVars>>
notLayoutVars == <<genVars, problemVars, configVars, ratioVars, constrainedVars, managerVars, previewVars, roundTripVars, balancedVars, historyVars, exporterVars>>
notProblemVars == <<genVars, layoutVars, configVars, ratioVars, constrainedVars, managerVars, previewVars, roundTripVars, balancedVars, historyVars, exporterVars>>
notConfigVars == <<genVars, layoutVars, problemVars, ratioVars, constrainedVars, managerVars, previewVars, balancedVars, historyVars, exporterVars>>
notGeneratorVars == <<layoutVars, problemVars, configVars, constrainedVars, managerVars, previewVars, roundTripVars, balancedVars, historyVars, exporterVars>>
notConstrainedVars == <<layoutVars, problemVars, configVars, ratioVars, managerVars, previewVars, roundTripVars, balancedVars, historyVars, exporterVars>>
notManagerVars == <<genVars, layoutVars, problemVars, configVars, ratioVars, constrainedVars, previewVars, roundTripVars, balancedVars, historyVars, exporterVars>>
notPreviewVars == <<genVars, layoutVars, problemVars, configVars, ratioVars, constrainedVars, managerVars, roundTripVars, balancedVars, historyVars, exporterVars>>
notRoundTripVars == <<genVars, layoutVars, problemVars, ratioVars, constrainedVars, managerVars, previewVars, balancedVars, historyVars, exporterVars>>
notBalancedVars == <<layoutVars, problemVars, configVars, ratioVars, constrainedVars, managerVars, previewVars, roundTripVars, historyVars, exporterVars>>
notHistoryVars == <<genVars, layoutVars, problemVars, configVars, ratioVars, constrainedVars, managerVars, previewVars, roundTripVars, balancedVars, exporterVars>>
notExporterVars == <<genVars, layoutVars, problemVars, configVars, ratioVars, constrainedVars, managerVars, previewVars, roundTripVars, balancedVars, historyVars>>

\* The valid configurations and the count arguments of the model.
Configs ==
  {WorksheetConfig(d, o, n) :
     d \in Difficulties, o \in OperationTypes,
     n \in ProblemCountMin .. MaxConfigCount}

Counts == {NoCount} \cup (0 .. MaxCount)

\* The draws of the operator: Math.random() is called in mixed mode only.
OperatorDraws(cfg) ==
  IF cfg # NoConfig /\ cfg.operationType = "mixed" THEN Draws ELSE {0}

EmptyTracker == [n \in {} |-> 0]

(***************************************************************************)
(* generateProblems.  The call is cut at its draws of Math.random(): each  *)
(* action is one generateSingleProblem call and the code that follows it   *)
(* up to the next one.                                                     *)
(***************************************************************************)
\* After problems.push(problem): the for loop's i++ and test, and the
\* return when the loop ends.
pcAfterPush == IF i + 1 < problemCount THEN "generating" ELSE "returned"

\* The call up to the first iteration of the for loop: the config check,
\* problemCount, the cleared tracking state.
GenerateProblems(cfg, cnt) ==
  /\ pc \in {"idle", "returned", "threw"}
  /\ config' = cfg
  /\ count' = cnt
  /\ warnings' = {}
  /\ problems' = <<>>
  /\ i' = 0
  /\ attempts' = 0
  /\ problemCount' = IF cfg = NoConfig THEN 0 ELSE effectiveProblemCount(cnt, cfg)
  /\ generatedProblems' = IF cfg = NoConfig THEN generatedProblems ELSE {}
  /\ numberUsageTracker' = IF cfg = NoConfig THEN numberUsageTracker
                                              ELSE EmptyTracker
  /\ pc' = IF cfg = NoConfig THEN "threw"
           ELSE IF 0 < effectiveProblemCount(cnt, cfg) THEN "generating"
           ELSE "returned"
  /\ UNCHANGED notGenVars

\* One iteration of the while loop; when it finds the problem, the loop's
\* exit and the push as well.
Attempt(k1, k2, k3) ==
  /\ pc = "generating"
  /\ retryLoopContinues(NoProblem, attempts)
  /\ \E candidate \in {generateSingleProblem(getDifficultyConfig(config),
                         getOperationConfig(config), k1, k2, k3)} :
       IF candidate = Thrown
         THEN /\ pc' = "threw"
              /\ UNCHANGED <<problems, i, attempts, generatedProblems,
                             numberUsageTracker>>
         ELSE IF validateProblem(candidate, config)
                 /\ ~isDuplicate(candidate, generatedProblems)
           THEN /\ generatedProblems' = generatedProblems
                     \cup {getProblemSignature(candidate)}
                /\ numberUsageTracker' =
                     trackNumberUsage(
                       trackNumberUsage(numberUsageTracker, candidate.operand1),
                       candidate.operand2)
                /\ problems' = Append(problems, candidate)
                /\ i' = i + 1
                /\ attempts' = 0
                /\ pc' = pcAfterPush
           ELSE /\ attempts' = attempts + 1
                /\ UNCHANGED <<pc, problems, i, generatedProblems,
                               numberUsageTracker>>
  /\ UNCHANGED <<config, count, problemCount, warnings>>
  /\ UNCHANGED notGenVars

\* The while loop ended without a problem: the fallback draw, the warning
\* and the push.
Fallback(k1, k2, k3) ==
  /\ pc = "generating"
  /\ ~retryLoopContinues(NoProblem, attempts)
  /\ \E fallback \in {fallbackProblem(getDifficultyConfig(config),
                        getOperationConfig(config), k1, k2, k3)} :
       IF fallback = Thrown
         THEN /\ pc' = "threw"
              /\ UNCHANGED <<problems, i, attempts, warnings>>
         ELSE /\ warnings' = warnings \cup {i + 1}
              /\ problems' = Append(problems, fallback)
              /\ i' = i + 1
              /\ attempts' = 0
              /\ pc' = pcAfterPush
  /\ UNCHANGED <<config, count, problemCount, generatedProblems,
                 numberUsageTracker>>
  /\ UNCHANGED notGenVars

GenNext ==
  \/ \E cfg \in Configs \cup {NoConfig}, cnt \in Counts : GenerateProblems(cfg, cnt)
  \/ \E k1 \in Draws, k2 \in Draws, k3 \in OperatorDraws(config) : Attempt(k1, k2, k3)
  \/ \E k1 \in Draws, k2 \in Draws, k3 \in OperatorDraws(config) : Fallback(k1, k2, k3)

(***************************************************************************)
(* generateProblemsWithRatioControl.  The call is cut at its draws like    *)
(* generateProblems; in a mode that is not mixed it is generateProblems.   *)
(***************************************************************************)
\* No call was made.
NoCall == [kind |-> "null"]

\* Math.abs
Abs(v) == IF v < 0 THEN -v ELSE v

\* A ratioConfig that is null.
NoRatio == [kind |-> "null"]

\* const defaultRatio = { addition: 0.5, subtraction: 0.5 }
defaultRatio == [addition |-> RatioScale \div 2, subtraction |-> RatioScale \div 2]

\* const ratio = ratioConfig || defaultRatio
ratioOf(ratio) == IF ratio = NoRatio THEN defaultRatio ELSE ratio

\* The ratio check with the tolerance ignored above 1.0.
ratiosRejectedBelowOnly(ratio) ==
  RatioScale - (ratioOf(ratio).addition + ratioOf(ratio).subtraction) > RatioTolerance

\* Math.abs(totalRatio - 1.0) > 0.01, where totalRatio is
\* (ratio.addition || 0) + (ratio.subtraction || 0)
ratiosRejected(ratio) ==
  Abs(ratioOf(ratio).addition + ratioOf(ratio).subtraction - RatioScale) > RatioTolerance

\* Math.round(problemCount * ratio.addition)
additionTargetOf(n, ratio) ==
  (2 * n * ratioOf(ratio).addition + RatioScale) \div (2 * RatioScale)

\* The operator of the next problem, from the counts so far.
targetOperator ==
  LET subtractionTarget == problemCount - additionTarget
      additionNeeded == additionTarget - additionCount
      subtractionNeeded == subtractionTarget - subtractionCount
  IN IF additionNeeded > 0 /\ subtractionNeeded > 0
       THEN IF additionCount * subtractionTarget <= subtractionCount * additionTarget
              THEN "+" ELSE "-"
     ELSE IF additionNeeded > 0 THEN "+"
     ELSE "-"

\* const operationConfig = { name: targetOperator === '+' ? ... : ... }
targetOperationConfig ==
  [name |-> IF targetOperator = "+" THEN OPERATION_TYPES.addition.name
                                    ELSE OPERATION_TYPES.subtraction.name]

\* shuffleArray from index ix down: ks[ix] is the draw of that iteration.
RECURSIVE shuffleFrom(_, _, _)
shuffleFrom(shuffled, ix, ks) ==
  IF ix <= 1 THEN shuffled
  ELSE LET j == randomInt(1, ix, ks[ix])
       IN shuffleFrom([shuffled EXCEPT ![ix] = shuffled[j], ![j] = shuffled[ix]],
                      ix - 1, ks)

\* shuffleArray(array)
shuffleArray(array, ks) == shuffleFrom(array, Len(array), ks)

\* The draws of one shuffle of n elements.
ShuffleDraws(n) == [2 .. n -> Draws]

\* After problems.push(problem) in the ratio loop: the next iteration, or
\* the shuffle and the return.
pushed(problem, ks) ==
  /\ i' = i + 1
  /\ attempts' = 0
  /\ additionCount' = IF problem.operator = "+" THEN additionCount + 1
                                                 ELSE additionCount
  /\ subtractionCount' = IF problem.operator = "+" THEN subtractionCount
                                                    ELSE subtractionCount + 1
  /\ IF i + 1 < problemCount
       THEN pc' = "ratio" /\ problems' = Append(problems, problem)
       ELSE pc' = "returned"
            /\ problems' = shuffleArray(Append(problems, problem), ks)

\* The call up to the first iteration of its loop: problemCount, the
\* ratio check, the hand-over to generateProblems or the targets and the
\* cleared tracking state.
GenerateProblemsWithRatioControl(cfg, cnt, ratio) ==
  /\ pc \in {"idle", "returned", "threw"}
  /\ config' = cfg
  /\ ratioConfig' = ratio
  /\ warnings' = {}
  /\ problems' = <<>>
  /\ i' = 0
  /\ attempts' = 0
  /\ problemCount' = effectiveProblemCount(cnt, cfg)
  /\ additionCount' = 0
  /\ subtractionCount' = 0
  /\ IF ratiosRejected(ratio)
       THEN /\ pc' = "threw"
            /\ count' = cnt
            /\ UNCHANGED <<generatedProblems, numberUsageTracker, additionTarget>>
       ELSE /\ generatedProblems' = {}
            /\ numberUsageTracker' = EmptyTracker
            /\ IF cfg.operationType # "mixed"
                 THEN /\ pc' = "generating"
                      /\ count' = effectiveProblemCount(cnt, cfg)
                      /\ UNCHANGED additionTarget
                 ELSE /\ pc' = "ratio"
                      /\ count' = cnt
                      /\ additionTarget' =
                           additionTargetOf(effectiveProblemCount(cnt, cfg), ratio)
  /\ UNCHANGED notGeneratorVars

\* One iteration of the while loop of the ratio loop; when it finds the
\* problem, the counts and the push as well.
RatioAttempt(k1, k2, ks) ==
  /\ pc = "ratio"
  /\ retryLoopContinues(NoProblem, attempts)
  /\ \E candidate \in {generateSingleProblem(getDifficultyConfig(config),
                         targetOperationConfig, k1, k2, 0)} :
       IF validateProblem(candidate, config)
          /\ ~isDuplicate(candidate, generatedProblems)
         THEN /\ generatedProblems' = generatedProblems
                   \cup {getProblemSignature(candidate)}
              /\ numberUsageTracker' =
                   trackNumberUsage(
                     trackNumberUsage(numberUsageTracker, candidate.operand1),
                     candidate.operand2)
              /\ pushed(candidate, ks)
         ELSE /\ attempts' = attempts + 1
              /\ UNCHANGED <<pc, problems, i, generatedProblems,
                             numberUsageTracker, additionCount, subtractionCount>>
  /\ UNCHANGED <<config, count, problemCount, warnings, ratioConfig, additionTarget>>
  /\ UNCHANGED notGeneratorVars

\* The while loop ended without a problem: the fallback draw, the counts
\* and the push.
RatioFallback(k1, k2, ks) ==
  /\ pc = "ratio"
  /\ ~retryLoopContinues(NoProblem, attempts)
  /\ pushed(generateSingleProblem(getDifficultyConfig(config),
                                  targetOperationConfig, k1, k2, 0), ks)
  /\ UNCHANGED <<config, count, problemCount, warnings, generatedProblems,
                 numberUsageTracker, ratioConfig, additionTarget>>
  /\ UNCHANGED notGeneratorVars

\* The configurations, counts and ratios of the calls.
RatioConfigs == {cfg \in Configs : cfg.difficulty = "within10"}
RatioAdditions == {0, 3 * (RatioScale \div 10), RatioScale}
RatioDeviations == {-(RatioTolerance + 1), -RatioTolerance, -1, 0, 1, RatioTolerance, RatioTolerance + 1}
RatioConfigArgs ==
  {NoRatio} \cup
  {[addition |-> a, subtraction |-> RatioScale - a + d] :
     a \in RatioAdditions, d \in RatioDeviations}

RatioNext ==
  \/ \E cfg \in RatioConfigs, cnt \in Counts, ratio \in RatioConfigArgs :
       GenerateProblemsWithRatioControl(cfg, cnt, ratio)
  \/ \E k1 \in Draws, k2 \in Draws, ks \in ShuffleDraws(problemCount) :
       RatioAttempt(k1, k2, ks)
  \/ \E k1 \in Draws, k2 \in Draws, ks \in ShuffleDraws(problemCount) :
       RatioFallback(k1, k2, ks)
  \/ \E k1 \in Draws, k2 \in Draws, k3 \in OperatorDraws(config) : Attempt(k1, k2, k3)
  \/ \E k1 \in Draws, k2 \in Draws, k3 \in OperatorDraws(config) : Fallback(k1, k2, k3)

(***************************************************************************)
(* generateBalancedProblems.  Its two generateProblems calls run as the    *)
(* steps of generateProblems; the call holds the additions while the       *)
(* subtractions are generated.                                             *)
(***************************************************************************)
\* generateProblems(cfg, cnt) called with a configuration: the call up to
\* the first iteration of its for loop.
generateProblemsCalled(cfg, cnt) ==
  /\ config' = cfg
  /\ count' = cnt
  /\ warnings' = {}
  /\ problems' = <<>>
  /\ i' = 0
  /\ attempts' = 0
  /\ problemCount' = effectiveProblemCount(cnt, cfg)
  /\ generatedProblems' = {}
  /\ numberUsageTracker' = EmptyTracker
  /\ pc' = IF 0 < effectiveProblemCount(cnt, cfg) THEN "generating" ELSE "returned"

\* const additionConfig = config.clone(); additionConfig.operationType = ...
cloneWithOperationType(cfg, operationType) ==
  [cfg EXCEPT !.operationType = operationType]

\* Math.round(problemCount * additionRatio)
balancedAdditionCount(n, additionRatio) ==
  (2 * n * additionRatio + RatioScale) \div (2 * RatioScale)

\* A generateBalancedProblems call has not returned or thrown yet.
balancedUnderWay ==
  /\ balanced # NoCall
  /\ \/ balanced.phase \in {"addition", "subtraction"} /\ pc # "threw"
     \/ balanced.phase = "plain" /\ pc = "generating"

\* The call up to the first iteration of the first generateProblems call,
\* or up to its throw.
GenerateBalancedProblems(cfg, cnt, additionRatio) ==
  /\ pc \in {"idle", "returned", "threw"}
  /\ ~balancedUnderWay
  /\ \E n \in {effectiveProblemCount(cnt, cfg)} :
       IF cfg.operationType # "mixed"
         THEN /\ generateProblemsCalled(cfg, n)
              /\ balanced' = [config |-> cfg, count |-> cnt,
                              additionRatio |-> additionRatio, phase |-> "plain",
                              subtractionCount |-> 0, problems |-> <<>>]
       ELSE IF additionRatio < 0 \/ additionRatio > RatioScale
         THEN /\ pc' = "threw"
              /\ balanced' = [config |-> cfg, count |-> cnt,
                              additionRatio |-> additionRatio, phase |-> "threw",
                              subtractionCount |-> 0, problems |-> <<>>]
              /\ UNCHANGED <<config, count, warnings, problems, i, attempts,
                             problemCount, generatedProblems, numberUsageTracker>>
       ELSE /\ generateProblemsCalled(cloneWithOperationType(cfg, "addition"),
                                      balancedAdditionCount(n, additionRatio))
            /\ balanced' = [config |-> cfg, count |-> cnt,
                            additionRatio |-> additionRatio, phase |-> "addition",
                            subtractionCount |->
                              n - balancedAdditionCount(n, additionRatio),
                            problems |-> <<>>]
  /\ UNCHANGED notBalancedVars

\* The first generateProblems call returned: problems.push(...additionProblems)
\* and the second call up to the first iteration of its for loop.
BalancedSubtraction ==
  /\ balanced # NoCall
  /\ balanced.phase = "addition"
  /\ pc = "returned"
  /\ generateProblemsCalled(cloneWithOperationType(balanced.config, "subtraction"),
                            balanced.subtractionCount)
  /\ balanced' = [balanced EXCEPT !.phase = "subtraction", !.problems = problems]
  /\ UNCHANGED notBalancedVars

\* The second generateProblems call returned: problems.push(...subtractionProblems)
\* and return this.shuffleArray(problems).
BalancedReturn(ks) ==
  /\ balanced # NoCall
  /\ balanced.phase = "subtraction"
  /\ pc = "returned"
  /\ problems' = shuffleArray(balanced.problems \o problems, ks)
  /\ balanced' = [balanced EXCEPT !.phase = "returned", !.problems = <<>>]
  /\ UNCHANGED <<pc, config, count, warnings, i, attempts, problemCount,
                 generatedProblems, numberUsageTracker>>
  /\ UNCHANGED notBalancedVars

\* The length of the list that is shuffled.
balancedLength ==
  IF balanced = NoCall THEN 0 ELSE Len(balanced.problems) + Len(problems)

\* The configurations, counts and ratios of the calls.
BalancedConfigs == {cfg \in Configs : cfg.difficulty = "within10" /\ cfg.operationType # "addition"}
BalancedRatios == {-1, 0, 3 * (RatioScale \div 10), RatioScale \div 2, RatioScale, RatioScale + 1}

BalancedNext ==
  \/ \E cfg \in BalancedConfigs, cnt \in Counts, additionRatio \in BalancedRatios :
       GenerateBalancedProblems(cfg, cnt, additionRatio)
  \/ BalancedSubtraction
  \/ \E ks \in ShuffleDraws(balancedLength) : BalancedReturn(ks)
  \/ \E k1 \in Draws, k2 \in Draws, k3 \in OperatorDraws(config) : Attempt(k1, k2, k3)
  \/ \E k1 \in Draws, k2 \in Draws, k3 \in OperatorDraws(config) : Fallback(k1, k2, k3)

(***************************************************************************)
(* LayoutEngine: constants.                                                *)
(***************************************************************************)
\* CANVAS_CONFIG (constants loaded) and getCanvasConfig's fallback: the
\* fields the engine reads are the same in both.
CANVAS_CONFIG ==
  [width |-> 2480, height |-> 3508,
   margins |-> [top |-> 150, right |-> 150, bottom |-> 150, left |-> 150]]

CanvasFallback ==
  [width |-> 2480, height |-> 3508,
   margins |-> [top |-> 150, right |-> 150, bottom |-> 150, left |-> 150]]

\* FONT_CONFIG (constants loaded) and getFontConfig's fallback.  lineHeight
\* 1.2 is the rational lineHeightNum / lineHeightDen.
FONT_CONFIG  == [size |-> 24, lineHeightNum |-> 6, lineHeightDen |-> 5]
FontFallback == [size |-> 48, lineHeightNum |-> 6, lineHeightDen |-> 5]

\* LAYOUT_TYPES
LAYOUT_TYPES ==
  [twoColumn   |-> [columns |-> 2, problemsPerPage |-> 20,
                    spacing |-> [horizontal |-> 50, vertical |-> 80]],
   threeColumn |-> [columns |-> 3, problemsPerPage |-> 30,
                    spacing |-> [horizontal |-> 40, vertical |-> 70]]]

Layouts == {"twoColumn", "threeColumn"}

\* Whether the shared constants (CANVAS_CONFIG, FONT_CONFIG) are defined
\* where the engine runs: "constants" or "fallback".  Every program of the
\* repository that constructs a LayoutEngine assigns the constants to the
\* global object first.
Environment == "constants"

\* preventOverlaps: two problems closer than this in y are in one row; a
\* problem closer than MinimumGap to its predecessor's right edge is moved
\* to OverlapPush beyond it.  HeightPadding is the padding of
\* calculateProblemDimensions.
SameRowTolerance == 10
MinimumGap == 10
OverlapPush == 20
HeightPadding == 20

(***************************************************************************)
(* LayoutEngine: pure helpers.  A coordinate v of a layout is kept as the  *)
(* integer v * den, den being the layout's denominator.                    *)
(***************************************************************************)
Max(a, b) == IF a >= b THEN a ELSE b
Min(a, b) == IF a <= b THEN a ELSE b

\* Math.ceil(a / b), Math.floor(a / b) for a >= 0, b > 0
CeilDiv(a, b) == (a + b - 1) \div b

\* LayoutEngine.getLayoutConfig(config)
getLayoutConfig(cfg) ==
  LET baseConfig == LAYOUT_TYPES[cfg.layout]
  IN [columns |-> baseConfig.columns,
      spacing |-> [horizontal |-> baseConfig.spacing.horizontal,
                   vertical |-> baseConfig.spacing.vertical],
      problemsPerPage |-> baseConfig.problemsPerPage]

\* getCanvasConfig()
getCanvasConfig(environment) ==
  IF environment = "constants" THEN CANVAS_CONFIG ELSE CanvasFallback

\* getFontConfig() answering with its built-in defaults whatever is loaded.
getFontConfigDefaults(environment) == FontFallback

\* getFontConfig()
getFontConfig(environment) ==
  IF environment = "constants" THEN FONT_CONFIG ELSE FontFallback

\* calculateAvailableSpace(canvasConfig)
calculateAvailableSpace(canvasConfig) ==
  [width  |-> canvasConfig.width - canvasConfig.margins.left
                - canvasConfig.margins.right,
   height |-> canvasConfig.height - canvasConfig.margins.top
                - canvasConfig.margins.bottom,
   startX |-> canvasConfig.margins.left,
   startY |-> canvasConfig.margins.top]

\* The denominator that makes every coordinate of a layout of totalRows
\* rows and the given columns an integer: the divisions are by columns, by
\* totalRows, by totalRows - 1 and by lineHeightDen.
Denominator(totalRows, columns, fontConfig) ==
  fontConfig.lineHeightDen * columns * totalRows
    * (IF totalRows > 1 THEN totalRows - 1 ELSE 1)

\* calculateProblemDimensions(maxWidth), times den (maxWidth is times den).
calculateProblemDimensions(maxWidth, fontConfig, den) ==
  LET averageCharWidth == (fontConfig.size * 6 * den) \div 10
      lineHeight == (fontConfig.size * fontConfig.lineHeightNum * den)
                      \div fontConfig.lineHeightDen
      estimatedTextWidth == averageCharWidth * 10
  IN [width |-> Min(estimatedTextWidth, maxWidth),
      height |-> lineHeight + HeightPadding * den,
      textHeight |-> lineHeight]

\* The column of the problem at index, counted from the right.
gridColumnFromRight(index, columns) == columns - 1 - (index % columns)

\* const col = index % columns
gridColumn(index, columns) == index % columns

\* const row = Math.floor(index / columns)
gridRow(index, columns) == index \div columns

\* The row height that ignores the space left on the page.
rowHeightEstimated(estimatedHeight, availableVerticalSpace, totalRows, den) ==
  estimatedHeight

\* const rowHeight = Math.max(problemDimensions.height,
\*                            availableVerticalSpace / totalRows)
rowHeightOf(estimatedHeight, availableVerticalSpace, totalRows, den) ==
  Max(estimatedHeight, (availableVerticalSpace * den) \div totalRows)

\* calculateProblemPositions(problems, layoutConfig, availableSpace)
calculateProblemPositions(problemList, layoutConfig, availableSpace, fontConfig, den) ==
  LET columns == layoutConfig.columns
      spacing == layoutConfig.spacing
      totalHorizontalSpacing == (columns - 1) * spacing.horizontal
      columnWidth == ((availableSpace.width - totalHorizontalSpacing) * den)
                       \div columns
      problemDimensions == calculateProblemDimensions(columnWidth, fontConfig, den)
      totalRows == CeilDiv(Len(problemList), columns)
      totalVerticalSpacing == (totalRows - 1) * spacing.vertical
      availableVerticalSpace == availableSpace.height - totalVerticalSpacing
      rowHeight == rowHeightOf(problemDimensions.height, availableVerticalSpace,
                               totalRows, den)
  IN [k \in 1 .. Len(problemList) |->
        LET index == k - 1
            row == gridRow(index, columns)
            col == gridColumn(index, columns)
        IN [problem |-> problemList[k],
            position |->
              [x |-> availableSpace.startX * den
                       + col * (columnWidth + spacing.horizontal * den),
               y |-> availableSpace.startY * den
                       + row * (rowHeight + spacing.vertical * den),
               width |-> columnWidth,
               height |-> rowHeight],
            metadata |-> [row |-> row, column |-> col, index |-> index]]]

\* problems.reduce((max, p) => Math.max(max, p.position.y + p.position.height), 0)
usedHeightOf(positions) ==
  LET bottoms == {0} \cup {positions[k].position.y + positions[k].position.height :
                             k \in 1 .. Len(positions)}
  IN CHOOSE m \in bottoms : \A b \in bottoms : b <= m

\* optimizeVerticalSpacing(problems, layout)
optimizeVerticalSpacing(positions, layout) ==
  LET columns == layout.layoutConfig.columns
      totalRows == CeilDiv(Len(positions), columns)
      den == layout.den
      usedHeight == usedHeightOf(positions)
      availableHeight == layout.availableSpace.height * den
      remainingSpace == availableHeight
                          - (usedHeight - layout.availableSpace.startY * den)
      extraSpacePerGap == remainingSpace \div (totalRows - 1)
  IN IF Len(positions) = 0 \/ totalRows <= 1 \/ ~(remainingSpace > 0)
       THEN positions
       ELSE [k \in 1 .. Len(positions) |->
               LET row == (k - 1) \div columns
               IN IF row > 0
                    THEN [positions[k] EXCEPT
                            !.position.y = @ + row * extraSpacePerGap]
                    ELSE positions[k]]

\* optimizeHorizontalAlignment(problems, layout): the problems are grouped
\* by column and left as they are (left alignment).
optimizeHorizontalAlignment(positions, layout) == positions

\* A comparator that orders by x before y.
comparePositionsColumnFirst(a, b, den) ==
  IF a.position.x # b.position.x
    THEN a.position.x - b.position.x
    ELSE a.position.y - b.position.y

\* The comparator of preventOverlaps' sort.
comparePositions(a, b, den) ==
  IF Abs(a.position.y - b.position.y) < SameRowTolerance * den
    THEN a.position.x - b.position.x
    ELSE a.position.y - b.position.y

\* [...problems].sort(comparator): Array.prototype.sort is stable, so
\* whenever the comparator orders the elements consistently an element's
\* place in the result is one more than the number of elements that
\* compare below it or compare equal and stand before it.
sortedPlace(positions, k, den) ==
  1 + Cardinality({j \in 1 .. Len(positions) :
                     LET c == comparePositions(positions[j], positions[k], den)
                     IN c < 0 \/ (c = 0 /\ j < k)})

sortPositions(positions, den) ==
  LET places == {<<k, sortedPlace(positions, k, den)>> :
                   k \in 1 .. Len(positions)}
  IN [r \in 1 .. Len(positions) |->
        positions[(CHOOSE kp \in places : kp[2] = r)[1]]]

\* The sweep of preventOverlaps: a problem in the row of its predecessor
\* and closer than MinimumGap to its right edge is moved to OverlapPush
\* beyond that edge.
\* adjustedX(sorted, k, den) is the x of sorted[k] after the sweep; the
\* predecessor's x is its x after the sweep.
RECURSIVE adjustedXAlwaysPushed(_, _, _)
adjustedXAlwaysPushed(sorted, k, den) ==
  IF k = 1 \/ Abs(sorted[k].position.y - sorted[k - 1].position.y)
                >= SameRowTolerance * den
    THEN sorted[k].position.x
    ELSE adjustedXAlwaysPushed(sorted, k - 1, den)
           + sorted[k - 1].position.width + OverlapPush * den

RECURSIVE adjustedX(_, _, _)
adjustedX(sorted, k, den) ==
  IF k = 1 \/ Abs(sorted[k].position.y - sorted[k - 1].position.y)
                >= SameRowTolerance * den
    THEN sorted[k].position.x
    ELSE LET prevRight == adjustedX(sorted, k - 1, den)
                            + sorted[k - 1].position.width
         IN IF sorted[k].position.x < prevRight + MinimumGap * den
              THEN prevRight + OverlapPush * den
              ELSE sorted[k].position.x

\* preventOverlaps(problems)
preventOverlaps(positions, den) ==
  LET sortedProblems == sortPositions(positions, den)
  IN [k \in 1 .. Len(sortedProblems) |->
        [sortedProblems[k] EXCEPT
           !.position.x = adjustedX(sortedProblems, k, den)]]

\* optimizeSpacing(layout)
optimizeSpacing(layout) ==
  [layout EXCEPT !.problems =
     preventOverlaps(
       optimizeHorizontalAlignment(
         optimizeVerticalSpacing(layout.problems, layout), layout),
       layout.den)]

\* validateProblemPosition(problemPos, layout): the problem and the
\* position are present and every number of the model is finite.
validateProblemPosition(problemPos, layout) ==
  /\ problemPos.position.width > 0
  /\ problemPos.position.height > 0

\* problemsOverlap(problem1, problem2)
problemsOverlap(problem1, problem2) ==
  LET p1 == problem1.position
      p2 == problem2.position
  IN ~(\/ p1.x + p1.width <= p2.x
       \/ p2.x + p2.width <= p1.x
       \/ p1.y + p1.height <= p2.y
       \/ p2.y + p2.height <= p1.y)

\* hasOverlaps(problems)
hasOverlaps(positions) ==
  \E j \in 1 .. Len(positions) : \E k \in (j + 1) .. Len(positions) :
    problemsOverlap(positions[j], positions[k])

\* problemsFitInBounds(problems, layout)
problemsFitInBounds(positions, layout) ==
  \A k \in 1 .. Len(positions) :
    LET pos == positions[k].position
    IN ~(\/ pos.x < 0
         \/ pos.y < 0
         \/ pos.x + pos.width > layout.pageSize.width * layout.den
         \/ pos.y + pos.height > layout.pageSize.height * layout.den)

\* validateLayout accepting every layout.
validateLayoutAlways(layout) == TRUE

\* validateLayout(layout)
validateLayout(layout) ==
  /\ \A k \in 1 .. Len(layout.problems) :
       validateProblemPosition(layout.problems[k], layout)
  /\ ~hasOverlaps(layout.problems)
  /\ problemsFitInBounds(layout.problems, layout)

\* No problems argument (null), no layout (null).
NoProblems == <<-1>>
NoLayout   == [kind |-> "null"]

\* A problem list of n problems; the engine never reads a problem's
\* fields, so problem k of the list is the reference k.
ProblemList(n) == [k \in 1 .. n |-> k]

\* A WorksheetConfig as the layout engine reads it.
LayoutConfig(layout) == [kind |-> "WorksheetConfig", layout |-> layout]

\* The layout calculateLayout builds before its optimisation passes.
computeLayout(problemList, cfg, environment) ==
  LET layoutConfig == getLayoutConfig(cfg)
      canvasConfig == getCanvasConfig(environment)
      fontConfig == getFontConfig(environment)
      availableSpace == calculateAvailableSpace(canvasConfig)
      rows == CeilDiv(Len(problemList), layoutConfig.columns)
      den == Denominator(rows, layoutConfig.columns, fontConfig)
  IN [kind |-> "layout",
      problems |-> calculateProblemPositions(problemList, layoutConfig,
                                             availableSpace, fontConfig, den),
      den |-> den,
      pageSize |-> [width |-> canvasConfig.width,
                    height |-> canvasConfig.height],
      margins |-> canvasConfig.margins,
      layoutConfig |-> layoutConfig,
      availableSpace |-> availableSpace,
      metadata |-> [totalProblems |-> Len(problemList),
                    columns |-> layoutConfig.columns,
                    rows |-> rows]]

\* calculateLayout handing back, unvalidated, a layout whose rows are all
\* drawn at the first row's y.
calculateLayoutRowsStacked(problemList, cfg, environment) ==
  IF problemList = NoProblems \/ Len(problemList) = 0 THEN Thrown
  ELSE IF cfg = NoConfig THEN Thrown
  ELSE LET layout == computeLayout(problemList, cfg, environment)
       IN [layout EXCEPT !.problems =
             [k \in 1 .. Len(problemList) |->
                [layout.problems[k] EXCEPT
                   !.position.y = layout.problems[1].position.y]]]

\* calculateLayout(problems, config) up to its return value: Thrown, or the
\* validated layout.
calculateLayout(problemList, cfg, environment) ==
  IF problemList = NoProblems \/ Len(problemList) = 0 THEN Thrown
  ELSE IF cfg = NoConfig THEN Thrown
  ELSE LET layout == computeLayout(problemList, cfg, environment)
           optimizedLayout == optimizeSpacing(layout)
       IN IF validateLayout(optimizedLayout) THEN optimizedLayout ELSE Thrown

(***************************************************************************)
(* LayoutEngine: state and operations.                                     *)
(***************************************************************************)
\* The problem lists and the configurations handed to calculateLayout.
ProblemLists == {NoProblems} \cup {ProblemList(n) : n \in 0 .. MaxProblems}

LayoutConfigs == {LayoutConfig(l) : l \in Layouts}

\* The calls of the model: every list with every configuration, and the
\* calls without a configuration for the absent, the empty, the shortest and
\* the longest list.
LayoutCalls ==
  {[problems |-> p, config |-> c] : p \in ProblemLists, c \in LayoutConfigs}
    \cup {[problems |-> p, config |-> NoConfig] :
            p \in {NoProblems, ProblemList(0), ProblemList(1),
                   ProblemList(MaxProblems)}}

\* calculateLayout over the calls with a list and a configuration, each
\* computed once.
LayoutTable ==
  {[layout |-> l, length |-> n,
    result |-> calculateLayout(ProblemList(n), LayoutConfig(l), Environment)] :
     l \in Layouts, n \in 1 .. MaxProblems}

calculateLayoutOf(call) ==
  IF call.problems # NoProblems /\ Len(call.problems) > 0
       /\ call.config # NoConfig
    THEN (CHOOSE t \in LayoutTable :
            /\ t.layout = call.config.layout
            /\ t.length = Len(call.problems)).result
    ELSE calculateLayout(call.problems, call.config, Environment)

\* calculateLayout that hands back the stored layout when that has as many
\* problems as the list it is given.
CalculateLayoutReusingStored(call) ==
  /\ layoutArgs' = call
  /\ \E optimizedLayout \in {calculateLayoutOf(call)} :
       \E returned \in {IF /\ optimizedLayout # Thrown
                            /\ currentLayout # NoLayout
                            /\ currentLayout.metadata.totalProblems
                                 = Len(call.problems)
                           THEN currentLayout ELSE optimizedLayout} :
         /\ layoutResult' = returned
         /\ currentLayout' = IF returned = Thrown THEN currentLayout
                             ELSE returned
  /\ UNCHANGED notLayoutVars

\* calculateLayout that drops the stored layout when it fails.
CalculateLayoutClearsOnFailure(call) ==
  /\ layoutArgs' = call
  /\ \E optimizedLayout \in {calculateLayoutOf(call)} :
       /\ layoutResult' = optimizedLayout
       /\ currentLayout' = IF optimizedLayout = Thrown THEN NoLayout
                           ELSE optimizedLayout
  /\ UNCHANGED notLayoutVars

\* calculateLayout(problems, config): the validated layout is stored in
\* currentLayout and returned; every failure is rethrown and stores nothing.
CalculateLayout(call) ==
  /\ layoutArgs' = call
  /\ \E optimizedLayout \in {calculateLayoutOf(call)} :
       /\ layoutResult' = optimizedLayout
       /\ currentLayout' = IF optimizedLayout = Thrown THEN currentLayout
                           ELSE optimizedLayout
  /\ UNCHANGED notLayoutVars

\* clearLayout()
ClearLayout ==
  /\ currentLayout' = NoLayout
  /\ layoutArgs' = NoCall
  /\ layoutResult' = NoLayout
  /\ UNCHANGED notLayoutVars

LayoutNext ==
  \/ \E call \in LayoutCalls : CalculateLayout(call)
  \/ ClearLayout

(***************************************************************************)
(* new MathProblem(...) on arbitrary arguments.                            *)
(***************************************************************************)
\* The numbers handed to the constructor are chosen by an index: index
\* MaxOperand + 1 chooses the number that is not an integer.
OperandArgs == -1 .. MaxOperand + 1
ResultArgs == -(MaxOperand + 1) .. 2 * MaxOperand + 1
NumberArg(index, last) == IF index = last THEN NonInteger ELSE index
OperatorArgs == {"+", "-", "*"}

\* new MathProblem(operand1, operand2, operator, result)
NewMathProblem(operand1, operand2, operator, result) ==
  /\ constructorArgs' = [operand1 |-> operand1, operand2 |-> operand2,
                         operator |-> operator, result |-> result]
  /\ constructed' = MathProblem(operand1, operand2, operator, result)
  /\ UNCHANGED notProblemVars

ProblemNext ==
  \E index1 \in OperandArgs, index2 \in OperandArgs,
     operator \in OperatorArgs, index3 \in ResultArgs :
    NewMathProblem(NumberArg(index1, MaxOperand + 1),
                   NumberArg(index2, MaxOperand + 1), operator,
                   NumberArg(index3, 2 * MaxOperand + 1))

(***************************************************************************)
(* WorksheetConfig: new WorksheetConfig(options) and update(updates).      *)
(* The fields paperFormat, showAnswers, title and createdAt, which         *)
(* validate() does not read, are left out.                                 *)
(***************************************************************************)
\* JavaScript undefined (a key the object does not have) and null.
Undefined == "undefined"
Null == "null"

LayoutNames == {"two-column", "three-column"}
BackgroundStyles == {"blank", "lined", "grid", "dotted", "custom"}

IsUndefined(v) == ToString(v) = ToString(Undefined)

\* !v, for the values of the model
Falsy(v) == ToString(v) \in {ToString(Undefined), ToString(Null), ToString(""), ToString(0)}

\* v || d
Or(v, d) == IF Falsy(v) THEN d ELSE v

\* WorksheetConfig.getDefaultProblemCount
getDefaultProblemCount(layout) ==
  IF layout = "two-column" THEN LAYOUT_TYPES.twoColumn.problemsPerPage
  ELSE IF layout = "three-column" THEN LAYOUT_TYPES.threeColumn.problemsPerPage
  ELSE DefaultProblemsPerPage

\* WorksheetConfig.validate: TRUE when it returns, FALSE when it throws.
validateWorksheetConfig(c) ==
  /\ c.difficulty \in Difficulties
  /\ c.operationType \in OperationTypes
  /\ c.layout \in LayoutNames
  /\ c.backgroundStyle \in BackgroundStyles
  /\ NumberIsInteger(c.problemCount)
  /\ c.problemCount >= ProblemCountMin
  /\ c.problemCount <= ProblemCountMax
  /\ ~(c.backgroundStyle = "custom" /\ Falsy(c.customBackgroundUrl))

\* The fields the constructor assigns from its options.
constructedFields(options) ==
  [difficulty          |-> Or(options.difficulty, "within20"),
   operationType       |-> Or(options.operationType, "addition"),
   layout              |-> Or(options.layout, "two-column"),
   backgroundStyle     |-> Or(options.backgroundStyle, "blank"),
   customBackgroundUrl |-> Or(options.customBackgroundUrl, Null),
   problemCount        |-> Or(options.problemCount,
                              getDefaultProblemCount(Or(options.layout, "two-column")))]

\* The fields after the assignments of update(updates): every key of
\* updates is assigned, then problemCount follows a new layout.
updatedFields(c, updates) ==
  LET assigned == [key \in DOMAIN c |->
                     IF IsUndefined(updates[key]) THEN c[key] ELSE updates[key]]
  IN IF ~Falsy(updates.layout) /\ Falsy(updates.problemCount)
       THEN [assigned EXCEPT !.problemCount = getDefaultProblemCount(assigned.layout)]
       ELSE assigned

\* The values a caller supplies; Undefined is a key left out.
SuppliedDifficulties == {Undefined, "", "within10", "within1000"}
SuppliedOperationTypes == {Undefined, "mixed", "division"}
SuppliedLayouts == {Undefined, "three-column", "four-column"}
SuppliedBackgroundStyles == {Undefined, "custom", "striped"}
SuppliedUrls == {Undefined, "", "data:image/png"}
\* problemCount is chosen by an index: the two indexes past
\* ProblemCountMax + 1 choose a key left out and a number that is not an
\* integer.
SuppliedCounts == {ProblemCountMin - 1, ProblemCountMin, ProblemCountMax, ProblemCountMax + 1, ProblemCountMax + 2, ProblemCountMax + 3}
suppliedCount(index) ==
  IF index = ProblemCountMax + 2 THEN Undefined
  ELSE IF index = ProblemCountMax + 3 THEN NonInteger
  ELSE index

\* The number of keys among some values of an options or updates object.
keyCount(values) ==
  Cardinality({index \in DOMAIN values : ~IsUndefined(values[index])})

\* new WorksheetConfig(options): the instance exists when validate()
\* returned.
NewWorksheetConfig(options) ==
  /\ worksheetConfig = NoConfig
  /\ supplied' = [call |-> "new", object |-> options]
  /\ \E c \in {constructedFields(options)} :
       IF validateWorksheetConfig(c)
         THEN worksheetConfig' = c /\ configThrew' = FALSE
         ELSE worksheetConfig' = NoConfig /\ configThrew' = TRUE
  /\ UNCHANGED notConfigVars

\* worksheetConfig.update(updates): the assignments stay when validate()
\* throws.
Update(updates) ==
  /\ worksheetConfig # NoConfig
  /\ supplied' = [call |-> "update", object |-> updates]
  /\ worksheetConfig' = updatedFields(worksheetConfig, updates)
  /\ configThrew' = ~validateWorksheetConfig(worksheetConfig')
  /\ UNCHANGED notConfigVars

\* The objects handed to the constructor and to update have MaxKeys keys
\* at most.
\* The objects handed to the constructor and to update have MaxKeys keys
\* at most.
\* A call on the instance leaves nothing of an earlier round trip.
ConfigNext ==
  \E d \in SuppliedDifficulties, t \in SuppliedOperationTypes :
    \E l \in {x \in SuppliedLayouts : keyCount(<<d, t, x>>) <= MaxKeys} :
      \E b \in {x \in SuppliedBackgroundStyles : keyCount(<<d, t, l, x>>) <= MaxKeys} :
        \E u \in {x \in SuppliedUrls : keyCount(<<d, t, l, b, x>>) <= MaxKeys} :
          \E n \in {x \in SuppliedCounts :
                      keyCount(<<d, t, l, b, u, suppliedCount(x)>>) <= MaxKeys} :
            \E o \in {[difficulty          |-> d,
                        operationType       |-> t,
                        layout              |-> l,
                        backgroundStyle     |-> b,
                        customBackgroundUrl |-> u,
                        problemCount        |-> suppliedCount(n)]} :
              /\ \/ NewWorksheetConfig(o)
                 \/ Update(o)
              /\ restored' = NoConfig

(***************************************************************************)
(* generateConstrainedProblems, cut at its draws like generateProblems.    *)
(***************************************************************************)
\* The constraint checks that follow validateProblem.  allowZero is FALSE
\* when the key is left out.
constraintsHold(c, p) ==
  /\ ~(~IsUndefined(c.minResult) /\ p.result < c.minResult)
  /\ ~(~IsUndefined(c.maxResult) /\ p.result > c.maxResult)
  /\ ~(~c.allowZero /\ p.result = 0)
  /\ ~(/\ ~IsUndefined(c.specificOperands)
       /\ p.operand1 \notin c.specificOperands
       /\ p.operand2 \notin c.specificOperands)

\* After the if (problem) of one iteration: the for loop's i++ and test.
pcAfterConstrained == IF i + 1 < problemCount THEN "constrained" ELSE "returned"

\* The call up to the first iteration of the for loop.  Neither the
\* signatures nor the usage counts are cleared.
GenerateConstrainedProblems(c, cfg) ==
  /\ pc \in {"idle", "returned", "threw"}
  /\ constraints' = c
  /\ config' = cfg
  /\ count' = NoCount
  /\ warnings' = {}
  /\ problems' = <<>>
  /\ i' = 0
  /\ attempts' = 0
  /\ problemCount' = effectiveProblemCount(NoCount, cfg)
  /\ pc' = "constrained"
  /\ UNCHANGED <<generatedProblems, numberUsageTracker>>
  /\ UNCHANGED notConstrainedVars

\* One iteration of the while loop; when it finds the problem, the loop's
\* exit and the push as well.
ConstrainedAttempt(k1, k2, k3) ==
  /\ pc = "constrained"
  /\ retryLoopContinues(NoProblem, attempts)
  /\ \E candidate \in {generateSingleProblem(getDifficultyConfig(config),
                         getOperationConfig(config), k1, k2, k3)} :
       IF candidate = Thrown
         THEN /\ pc' = "threw"
              /\ UNCHANGED <<problems, i, attempts, generatedProblems>>
         ELSE IF /\ validateProblem(candidate, config)
                 /\ constraintsHold(constraints, candidate)
                 /\ ~isDuplicate(candidate, generatedProblems)
           THEN /\ generatedProblems' = generatedProblems
                     \cup {getProblemSignature(candidate)}
                /\ problems' = Append(problems, candidate)
                /\ i' = i + 1
                /\ attempts' = 0
                /\ pc' = pcAfterConstrained
           ELSE /\ attempts' = attempts + 1
                /\ UNCHANGED <<pc, problems, i, generatedProblems>>
  /\ UNCHANGED <<config, count, problemCount, warnings, numberUsageTracker,
                 constraints>>
  /\ UNCHANGED notConstrainedVars

\* The while loop ended without a problem: nothing is pushed.
ConstrainedSkip ==
  /\ pc = "constrained"
  /\ ~retryLoopContinues(NoProblem, attempts)
  /\ i' = i + 1
  /\ attempts' = 0
  /\ pc' = pcAfterConstrained
  /\ UNCHANGED <<config, count, problemCount, problems, warnings,
                 generatedProblems, numberUsageTracker, constraints>>
  /\ UNCHANGED notConstrainedVars

\* The constraints of the calls, chosen by indexes: a negative bound is a
\* key left out, as is the operand 0.
ConstraintMinima == {-1, 1}
ConstraintMaxima == {-1, 5}
constraintBound(index) == IF index < 0 THEN Undefined ELSE index
ConstraintOperands == {0, 1}
constraintOperands(index) == IF index = 0 THEN Undefined ELSE {index}

\* The configurations of the calls.
ConstrainedConfigs == {cfg \in RatioConfigs : cfg.operationType = "subtraction"}

ConstrainedNext ==
  \/ \E cfg \in ConstrainedConfigs, cnt \in Counts : GenerateProblems(cfg, cnt)
  \/ \E k1 \in Draws, k2 \in Draws, k3 \in OperatorDraws(config) : Attempt(k1, k2, k3)
  \/ \E k1 \in Draws, k2 \in Draws, k3 \in OperatorDraws(config) : Fallback(k1, k2, k3)
  \/ \E cfg \in ConstrainedConfigs, lo \in ConstraintMinima, hi \in ConstraintMaxima, zero \in BOOLEAN, operand \in ConstraintOperands :
       GenerateConstrainedProblems([minResult |-> constraintBound(lo), maxResult |-> constraintBound(hi), allowZero |-> zero, specificOperands |-> constraintOperands(operand)], cfg)
  \/ \E k1 \in Draws, k2 \in Draws, k3 \in OperatorDraws(config) : ConstrainedAttempt(k1, k2, k3)
  \/ ConstrainedSkip

(***************************************************************************)
(* WorksheetConfig: toJSON, fromJSON, equals, clone, on the fields of the  *)
(* model (createdAt, which equals does not compare, is left out).          *)
(***************************************************************************)
\* toJSON(): a plain object with the fields of the instance.
toJSON(c) ==
  [difficulty          |-> c.difficulty,
   operationType       |-> c.operationType,
   layout              |-> c.layout,
   backgroundStyle     |-> c.backgroundStyle,
   customBackgroundUrl |-> c.customBackgroundUrl,
   problemCount        |-> c.problemCount]

\* new WorksheetConfig(options): the fields of the instance, or Thrown.
newWorksheetConfig(options) ==
  IF validateWorksheetConfig(constructedFields(options))
    THEN constructedFields(options)
    ELSE Thrown

\* WorksheetConfig.fromJSON(obj)
fromJSON(obj) == newWorksheetConfig(obj)

\* clone(): new WorksheetConfig({ the fields of this })
clone(c) == newWorksheetConfig(toJSON(c))

\* this.equals(other), other being a WorksheetConfig.  Values of
\* different types are not ===.
equals(c, other) ==
  /\ c.difficulty = other.difficulty
  /\ c.operationType = other.operationType
  /\ c.layout = other.layout
  /\ c.backgroundStyle = other.backgroundStyle
  /\ c.customBackgroundUrl = other.customBackgroundUrl
  /\ ToString(c.problemCount) = ToString(other.problemCount)

\* WorksheetConfig.fromJSON(worksheetConfig.toJSON())
RoundTrip ==
  /\ worksheetConfig # NoConfig
  /\ restored' = fromJSON(toJSON(worksheetConfig))
  /\ UNCHANGED configVars
  /\ UNCHANGED notRoundTripVars

(***************************************************************************)
(* ConfigurationManager: validateConfig, createConfig, updateConfig,       *)
(* setCurrentConfig.  A WorksheetConfig object is an index of instances;   *)
(* listeners are left out (their errors are caught).                       *)
(***************************************************************************)
\* The message of the Error WorksheetConfig.validate throws, by the order
\* of its checks; "none" when it returns.
validateError(c) ==
  IF c.difficulty \notin Difficulties THEN "Invalid difficulty level"
  ELSE IF c.operationType \notin OperationTypes THEN "Invalid operation type"
  ELSE IF c.layout \notin LayoutNames THEN "Invalid layout"
  ELSE IF c.backgroundStyle \notin BackgroundStyles THEN "Invalid background style"
  ELSE IF ~(/\ NumberIsInteger(c.problemCount)
            /\ c.problemCount >= ProblemCountMin
            /\ c.problemCount <= ProblemCountMax)
    THEN "Problem count must be between"
  ELSE IF c.backgroundStyle = "custom" /\ Falsy(c.customBackgroundUrl)
    THEN "Custom background URL is required"
  ELSE "none"

\* The strings new URL(...) accepts, among those of the model.
ValidUrls == {"data:image/png"}

\* The errors of _validateBusinessRules.
businessErrors(c) ==
  IF c.backgroundStyle # "custom" THEN {}
  ELSE IF Falsy(c.customBackgroundUrl) THEN {"Custom background URL is required"}
  ELSE IF c.customBackgroundUrl \notin ValidUrls
    THEN {"Custom background URL must be a valid URL"}
  ELSE {}

\* The double loop of _calculateMaxPossibleProblems from a upwards: the
\* pairs (a, b) with minNumber <= b <= a <= maxNumber.
RECURSIVE subtractionCountFrom(_, _, _)
subtractionCountFrom(a, minNumber, maxNumber) ==
  IF a > maxNumber THEN 0
  ELSE (a - minNumber + 1) + subtractionCountFrom(a + 1, minNumber, maxNumber)

\* _calculateMaxPossibleProblems
calculateMaxPossibleProblems(c) ==
  LET minNumber == DIFFICULTY_LEVELS[c.difficulty].minNumber
      maxNumber == DIFFICULTY_LEVELS[c.difficulty].maxNumber
      range == maxNumber - minNumber + 1
  IN IF c.operationType = "addition" THEN range * range
     ELSE IF c.operationType = "subtraction"
       THEN subtractionCountFrom(minNumber, minNumber, maxNumber)
     ELSE IF c.operationType = "mixed"
       THEN range * range + subtractionCountFrom(minNumber, minNumber, maxNumber)
     ELSE 0

\* The errors of _validateCrossFields.
crossFieldErrors(c) ==
  IF c.problemCount > calculateMaxPossibleProblems(c)
    THEN {"exceeds maximum possible unique problems"}
    ELSE {}

\* validateConfig of something that is not a WorksheetConfig.
NotAnInstance ==
  [isValid |-> FALSE,
   errors |-> {"Configuration must be an instance of WorksheetConfig"}]

\* validateConfig(config) of a WorksheetConfig with the fields c: the
\* message config.validate() throws, or the errors of the two rule sets.
validateConfig(c) ==
  LET errors == IF validateError(c) # "none" THEN {validateError(c)}
                ELSE businessErrors(c) \cup crossFieldErrors(c)
  IN [isValid |-> errors = {}, errors |-> errors]

\* validateConfig(config), config being the object id or, for 0, null.
validateConfigOf(id) ==
  IF id = 0 THEN NotAnInstance ELSE validateConfig(instances[id])

\* validateConfig(config)
ValidateConfig(id) ==
  /\ validation' = validateConfigOf(id)
  /\ managerCall' = [call |-> "validateConfig", config |-> id, threw |-> FALSE]
  /\ UNCHANGED <<instances, currentConfig>>
  /\ UNCHANGED notManagerVars

\* createConfig(options): the object exists for the caller when the
\* constructor and validateConfig accepted it.
CreateConfig(options) ==
  /\ Len(instances) < MaxInstances
  /\ \E c \in {constructedFields(options)} :
       IF validateWorksheetConfig(c) /\ validateConfig(c).isValid
         THEN /\ instances' = Append(instances, c)
              /\ currentConfig' = Len(instances) + 1
              /\ managerCall' = [call |-> "createConfig", config |-> Len(instances) + 1, threw |-> FALSE]
         ELSE /\ managerCall' = [call |-> "createConfig", config |-> 0, threw |-> TRUE]
              /\ UNCHANGED <<instances, currentConfig>>
  /\ UNCHANGED validation
  /\ UNCHANGED notManagerVars

\* updateConfig(config, updates): config.update(updates) assigns to the
\* object before anything is validated.
UpdateConfig(id, updates) ==
  /\ IF id = 0
       THEN /\ managerCall' = [call |-> "updateConfig", config |-> id, threw |-> TRUE]
            /\ UNCHANGED <<instances, currentConfig>>
       ELSE \E c \in {updatedFields(instances[id], updates)} :
              /\ instances' = [instances EXCEPT ![id] = c]
              /\ IF validateWorksheetConfig(c) /\ validateConfig(c).isValid
                   THEN /\ currentConfig' = id
                        /\ managerCall' = [call |-> "updateConfig", config |-> id, threw |-> FALSE]
                   ELSE /\ managerCall' = [call |-> "updateConfig", config |-> id, threw |-> TRUE]
                        /\ UNCHANGED currentConfig
  /\ UNCHANGED validation
  /\ UNCHANGED notManagerVars

\* setCurrentConfig(config)
SetCurrentConfig(id) ==
  /\ IF validateConfigOf(id).isValid
       THEN /\ currentConfig' = id
            /\ managerCall' = [call |-> "setCurrentConfig", config |-> id, threw |-> FALSE]
       ELSE /\ managerCall' = [call |-> "setCurrentConfig", config |-> id, threw |-> TRUE]
            /\ UNCHANGED currentConfig
  /\ UNCHANGED <<instances, validation>>
  /\ UNCHANGED notManagerVars

\* An options or updates object without keys.
NoKeys ==
  [difficulty          |-> Undefined,
   operationType       |-> Undefined,
   layout              |-> Undefined,
   backgroundStyle     |-> Undefined,
   customBackgroundUrl |-> Undefined,
   problemCount        |-> Undefined]

\* The options and updates handed to the manager, by index.
ManagerObjects == 1 .. 12
managerObject(index) ==
  CASE index = 1 -> NoKeys
    [] index = 2 -> [NoKeys EXCEPT !.operationType = "subtraction"]
    [] index = 3 -> [NoKeys EXCEPT !.operationType = "mixed"]
    [] index = 4 -> [NoKeys EXCEPT !.difficulty = "within10"]
    [] index = 5 -> [NoKeys EXCEPT !.difficulty = "within1000"]
    [] index = 6 -> [NoKeys EXCEPT !.problemCount = ProblemCountMax]
    [] index = 7 -> [NoKeys EXCEPT !.problemCount = 56]
    [] index = 8 -> [NoKeys EXCEPT !.problemCount = 101]
    [] index = 9 -> [NoKeys EXCEPT !.customBackgroundUrl = ""]
    [] index = 10 -> [NoKeys EXCEPT !.backgroundStyle = "custom",
                                     !.customBackgroundUrl = "background.png"]
    [] index = 11 -> [NoKeys EXCEPT !.backgroundStyle = "custom",
                                     !.customBackgroundUrl = "data:image/png"]
    [] index = 12 -> [NoKeys EXCEPT !.layout = "three-column"]

ManagerNext ==
  \/ \E index \in ManagerObjects : CreateConfig(managerObject(index))
  \/ \E id \in 0 .. Len(instances), index \in ManagerObjects :
       UpdateConfig(id, managerObject(index))
  \/ \E id \in 0 .. Len(instances) : SetCurrentConfig(id)
  \/ \E id \in 0 .. Len(instances) : ValidateConfig(id)

\* One instance, constructed and updated with the objects above and taken
\* through JSON.
RoundTripNext ==
  \/ \E index \in ManagerObjects :
       /\ \/ NewWorksheetConfig(managerObject(index))
          \/ Update(managerObject(index))
       /\ restored' = NoConfig
  \/ RoundTrip

(***************************************************************************)
(* ConfigurationManager: saveToHistory, clearHistory.                      *)
(***************************************************************************)
\* The configurations handed to saveToHistory, by index: the default one,
\* one for subtraction, the default one after update({customBackgroundUrl:
\* ''}), the default one after an update that threw, and an object that is
\* not a WorksheetConfig.
HistoryObjects == 1 .. 5
historyObject(index) ==
  CASE index = 1 -> constructedFields(managerObject(1))
    [] index = 2 -> constructedFields(managerObject(2))
    [] index = 3 -> updatedFields(constructedFields(managerObject(1)), managerObject(9))
    [] index = 4 -> updatedFields(constructedFields(managerObject(1)), managerObject(5))
    [] index = 5 -> NotAnInstance

\* The history after push(entry) and the shift that keeps the size limit.
pushedToHistory(history, entry) ==
  IF Len(history) + 1 > maxHistorySize
    THEN Tail(Append(history, entry))
    ELSE Append(history, entry)

\* saveToHistory(c)
SaveToHistory(c) ==
  /\ Len(accepted) < MaxSaves
  /\ historyCall' = [call |-> "saveToHistory", config |-> c, before |-> configHistory]
  /\ IF c = NotAnInstance
       THEN UNCHANGED <<configHistory, accepted>>
     ELSE IF Len(configHistory) > 0 /\ equals(c, configHistory[Len(configHistory)])
       THEN UNCHANGED <<configHistory, accepted>>
     ELSE IF clone(c) = Thrown
       THEN UNCHANGED <<configHistory, accepted>>
     ELSE /\ configHistory' = pushedToHistory(configHistory, clone(c))
          /\ accepted' = Append(accepted, c)
  /\ UNCHANGED notHistoryVars

\* clearHistory()
ClearHistory ==
  /\ historyCall' = [call |-> "clearHistory", config |-> NoConfig, before |-> configHistory]
  /\ configHistory' = <<>>
  /\ accepted' = <<>>
  /\ UNCHANGED notHistoryVars

HistoryNext ==
  \/ \E index \in HistoryObjects : SaveToHistory(historyObject(index))
  \/ ClearHistory

(***************************************************************************)
(* ImageExporter: exportAndDownload, exportAndShare.  An async call runs   *)
(* to its first await in one step and is resumed when the promise it       *)
(* awaits settles; the outcome of exportToBlob, downloadBlob and           *)
(* shareImage is any of resolved and rejected.                             *)
(***************************************************************************)
\* An export test that lets every call in.
exportNeverInProgress(flag) == FALSE

\* if (this.isExporting) throw new Error('Export already in progress')
exportInProgress(flag) == flag

\* The calls that are suspended at an await.
inFlight == {k \in DOMAIN operations : operations[k].stage \in {"exportToBlob", "delivery"}}

\* A call of exportAndDownload or exportAndShare up to its first await,
\* or to its throw.
exportCalled(method) ==
  /\ Len(operations) < MaxOperations
  /\ IF exportInProgress(isExporting)
       THEN /\ operations' = Append(operations,
                 [method |-> method, stage |-> "rejected", found |-> inFlight])
            /\ UNCHANGED isExporting
       ELSE /\ isExporting' = TRUE
            /\ operations' = Append(operations,
                 [method |-> method, stage |-> "exportToBlob", found |-> inFlight])
  /\ UNCHANGED notExporterVars

\* exportAndDownload(canvas, options)
ExportAndDownload == exportCalled("exportAndDownload")

\* exportAndShare(canvas, options)
ExportAndShare == exportCalled("exportAndShare")

\* exportToBlob resolved: the call goes on to await downloadBlob or
\* shareImage.
ExportToBlobResolved(k) ==
  /\ operations[k].stage = "exportToBlob"
  /\ operations' = [operations EXCEPT ![k].stage = "delivery"]
  /\ UNCHANGED isExporting
  /\ UNCHANGED notExporterVars

\* exportToBlob rejected: catch, rethrow, finally.
ExportToBlobRejected(k) ==
  /\ operations[k].stage = "exportToBlob"
  /\ operations' = [operations EXCEPT ![k].stage = "failed"]
  /\ isExporting' = FALSE
  /\ UNCHANGED notExporterVars

\* downloadBlob or shareImage resolved: the log line, finally.
DeliveryResolved(k) ==
  /\ operations[k].stage = "delivery"
  /\ operations' = [operations EXCEPT ![k].stage = "completed"]
  /\ isExporting' = FALSE
  /\ UNCHANGED notExporterVars

\* downloadBlob or shareImage rejected: catch, rethrow, finally.
DeliveryRejected(k) ==
  /\ operations[k].stage = "delivery"
  /\ operations' = [operations EXCEPT ![k].stage = "failed"]
  /\ isExporting' = FALSE
  /\ UNCHANGED notExporterVars

ExporterNext ==
  \/ ExportAndDownload
  \/ ExportAndShare
  \/ \E k \in DOMAIN operations : ExportToBlobResolved(k)
  \/ \E k \in DOMAIN operations : ExportToBlobRejected(k)
  \/ \E k \in DOMAIN operations : DeliveryResolved(k)
  \/ \E k \in DOMAIN operations : DeliveryRejected(k)

(***************************************************************************)
(* MathWorksheetApp.updatePreview.  Time advances in steps of a third of   *)
(* the debounce delay; a timer's callback runs at the time it is due,      *)
(* before the clock goes on.                                               *)
(***************************************************************************)
\* The step of the clock.
ClockStep == debounceDelay \div 3

\* clearTimeout that cancels nothing.
clearTimeoutIgnored(set, id) == set

\* clearTimeout(id): the timer, if it is still set, is cancelled.
clearTimeout(set, id) == {t \in set : t.id # id}

\* setTimeout(callback, delay): the timer ids count up from 1.
setTimeout(set, id, delay) == set \cup {[id |-> id, due |-> now + delay]}

\* updatePreview()
UpdatePreview ==
  /\ Len(requests) < MaxRequests
  /\ requests' = Append(requests, now)
  /\ timers' = setTimeout(clearTimeout(timers, previewUpdateTimeout),
                          Len(requests) + 1, debounceDelay)
  /\ previewUpdateTimeout' = Len(requests) + 1
  /\ UNCHANGED <<now, renders>>
  /\ UNCHANGED notPreviewVars

\* The callback of a timer that is due: this.renderPreview() is started.
TimerFires(t) ==
  /\ t \in timers
  /\ t.due <= now
  /\ timers' = timers \ {t}
  /\ renders' = Append(renders, [timer |-> t.id, at |-> now])
  /\ UNCHANGED <<now, previewUpdateTimeout, requests>>
  /\ UNCHANGED notPreviewVars

\* Time passes while no timer is due.
ClockTick ==
  /\ now < MaxTime
  /\ \A t \in timers : t.due > now
  /\ now' = now + ClockStep
  /\ UNCHANGED <<previewUpdateTimeout, timers, requests, renders>>
  /\ UNCHANGED notPreviewVars

PreviewNext ==
  \/ UpdatePreview
  \/ \E t \in timers : TimerFires(t)
  \/ ClockTick

(***************************************************************************)
(* Specifications.                                                         *)
(***************************************************************************)
\* A generator and a layout engine, just constructed.
Init ==
  /\ pc = "idle"
  /\ config = NoConfig
  /\ count = NoCount
  /\ problemCount = 0
  /\ problems = <<>>
  /\ i = 0
  /\ attempts = 0
  /\ generatedProblems = {}
  /\ numberUsageTracker = EmptyTracker
  /\ warnings = {}
  /\ currentLayout = NoLayout
  /\ layoutArgs = NoCall
  /\ layoutResult = NoLayout
  /\ constructorArgs = NoCall
  /\ constructed = NoProblem
  /\ worksheetConfig = NoConfig
  /\ supplied = NoCall
  /\ configThrew = FALSE
  /\ ratioConfig = NoCall
  /\ additionTarget = 0
  /\ additionCount = 0
  /\ subtractionCount = 0
  /\ constraints = NoCall
  /\ instances = <<>>
  /\ currentConfig = 0
  /\ managerCall = NoCall
  /\ validation = NoCall
  /\ now = 0
  /\ previewUpdateTimeout = 0
  /\ timers = {}
  /\ requests = <<>>
  /\ renders = <<>>
  /\ restored = NoConfig
  /\ balanced = NoCall
  /\ configHistory = <<>>
  /\ accepted = <<>>
  /\ historyCall = NoCall
  /\ isExporting = FALSE
  /\ operations = <<>>

\* The generator alone: the layout engine stays as constructed.
SpecGen == Init /\ [][GenNext]_vars

\* The layout engine alone: the generator stays as constructed.
SpecLayout == Init /\ [][LayoutNext]_vars

\* The MathProblem constructor alone.
SpecProblem == Init /\ [][ProblemNext]_vars

\* One WorksheetConfig instance: its construction, then its updates.
SpecConfig == Init /\ [][ConfigNext]_vars

\* One ProblemGenerator whose generateBalancedProblems is called.
SpecBalanced == Init /\ [][BalancedNext]_vars

\* The history of one ConfigurationManager.
SpecHistory == Init /\ [][HistoryNext]_vars

\* One ImageExporter and the calls made on it.
SpecExporter == Init /\ [][ExporterNext]_vars

\* One WorksheetConfig instance and its round trips through JSON.
SpecRoundTrip == Init /\ [][RoundTripNext]_vars

\* The preview of one MathWorksheetApp: its requests, its timer, the clock.
SpecPreview == Init /\ [][PreviewNext]_vars

\* One ConfigurationManager and the configurations it creates.
SpecManager == Init /\ [][ManagerNext]_vars

\* One generator called through generateProblems and through
\* generateConstrainedProblems, in any order.
SpecConstrained == Init /\ [][ConstrainedNext]_vars

\* The generator called through generateProblemsWithRatioControl.
SpecRatio == Init /\ [][RatioNext]_vars

\* The generator under the scheduling of a synchronous call: a call that
\* has started keeps running until it returns or throws.
FairSpecGen ==
  /\ SpecGen
  /\ WF_vars(\E k1 \in Draws, k2 \in Draws, k3 \in OperatorDraws(config) :
               Attempt(k1, k2, k3) \/ Fallback(k1, k2, k3))

(***************************************************************************)
(* Properties of generateProblems.                                         *)
(***************************************************************************)
\* The (operand1, operator, operand2) triple of a problem.
Triple(p) == <<p.operand1, p.operator, p.operand2>>

\* The difficulty range of the running call.
MinNumber == getDifficultyConfig(config).minNumber
MaxNumber == getDifficultyConfig(config).maxNumber

\* C1: every problem of a returned list has result = operand1 + operand2
\* when its operator is '+', and result = operand1 - operand2 with
\* operand1 >= operand2 (so result >= 0) when its operator is '-'.
C1_ArithmeticInvariant ==
  pc = "returned" =>
    \A k \in 1 .. Len(problems) :
      LET p == problems[k]
      IN \/ p.operator = "+" /\ p.result = p.operand1 + p.operand2
         \/ /\ p.operator = "-"
            /\ p.result = p.operand1 - p.operand2
            /\ p.operand1 >= p.operand2
            /\ p.result >= 0

\* A returned list whose fallback slot holds a subtraction of a smaller
\* from a larger operand, and which also holds an addition.
C1_Witness ==
  /\ pc = "returned"
  /\ \E k \in warnings :
       problems[k].operator = "-" /\ problems[k].operand1 > problems[k].operand2
  /\ \E k \in 1 .. Len(problems) : problems[k].operator = "+"

\* C2: every operand of every problem of a returned list lies in
\* [minNumber, maxNumber] of the configured difficulty.
C2_RangeInvariant ==
  pc = "returned" =>
    \A k \in 1 .. Len(problems) :
      /\ MinNumber <= problems[k].operand1 /\ problems[k].operand1 <= MaxNumber
      /\ MinNumber <= problems[k].operand2 /\ problems[k].operand2 <= MaxNumber

\* A returned list with a subtraction maxNumber - minNumber (after the swap
\* or not) in a fallback slot.
C2_Witness ==
  /\ pc = "returned"
  /\ \E k \in warnings :
       /\ problems[k].operator = "-"
       /\ problems[k].operand1 = MaxNumber
       /\ problems[k].operand2 = MinNumber

\* The number of problems a call asks for: count when it is supplied,
\* config.problemCount when it is omitted.
Requested == IF count # NoCount THEN count ELSE config.problemCount

\* C3 as stated: a returned list has exactly count problems whenever count
\* is supplied (0 included), and config.problemCount problems when it is
\* omitted.
C3_LengthAsClaimed ==
  pc = "returned" =>
    Len(problems) = Requested

C5_DistinctUnlessExhausted ==
  (pc = "returned" /\ warnings = {}) =>
    \A j \in 1 .. Len(problems), k \in 1 .. Len(problems) :
      j # k => Triple(problems[j]) # Triple(problems[k])

\* A returned list of several problems with no exhausted slot.
C5_Witness ==
  /\ pc = "returned"
  /\ warnings = {}
  /\ Len(problems) >= 2

\* The position of a running call: slots done and attempts made in the
\* current slot.
Measure == i * (maxRetries + 1) + attempts

\* C6 as stated: a call makes at most count * 101 candidate generations,
\* count being the number of problems it asks for.  A running or returned
\* call has made at least i + attempts of them: one or more for each slot
\* it filled and one for each attempt of the current slot.
C6_BoundAsClaimed ==
  pc \in {"generating", "returned"} =>
    i + attempts <= Requested * (maxRetries + 1)

\* C6, with the number of slots of the loop in the place of count: every
\* call with a configuration terminates, each step (one candidate
\* generation) advances the position, and the position never exceeds
\* problemCount * 101, so a call makes at most problemCount * 101 candidate
\* generations.
C6_Terminates ==
  /\ [](pc \in {"generating", "returned"} =>
          /\ attempts <= maxRetries
          /\ Measure <= problemCount * (maxRetries + 1))
  /\ [][pc = "generating" => (pc' = "threw" \/ Measure' > Measure)]_vars
  /\ ((pc = "generating") ~> (pc \in {"returned", "threw"}))

\* A slot that has made all of its 100 attempts, at its fallback draw.
C6_Witness ==
  /\ pc = "generating"
  /\ attempts = maxRetries
  /\ i + 1 = problemCount

(***************************************************************************)
(* Properties of calculateLayout.  Coordinates are compared as they are    *)
(* kept, times the layout's denominator.                                   *)
(***************************************************************************)
IsLayout(v) == v.kind = "layout"

\* The rectangle [x, x + width] x [y, y + height] of entry k of a layout.
Left(layout, k)   == layout.problems[k].position.x
Right(layout, k)  == layout.problems[k].position.x + layout.problems[k].position.width
Top(layout, k)    == layout.problems[k].position.y
Bottom(layout, k) == layout.problems[k].position.y + layout.problems[k].position.height

\* Two rectangles do not intersect (they may share an edge).
Disjoint(layout, j, k) ==
  \/ Right(layout, j) <= Left(layout, k)
  \/ Right(layout, k) <= Left(layout, j)
  \/ Bottom(layout, j) <= Top(layout, k)
  \/ Bottom(layout, k) <= Top(layout, j)

NoTwoIntersect(layout) ==
  \A j \in 1 .. Len(layout.problems), k \in 1 .. Len(layout.problems) :
    j < k => Disjoint(layout, j, k)

AllInsidePage(layout) ==
  \A k \in 1 .. Len(layout.problems) :
    /\ 0 <= Left(layout, k)
    /\ 0 <= Top(layout, k)
    /\ Right(layout, k) <= layout.pageSize.width * layout.den
    /\ Bottom(layout, k) <= layout.pageSize.height * layout.den

\* A call with an absent or empty problem list, or without a configuration.
FailingArguments(call) ==
  \/ call.problems = NoProblems
  \/ Len(call.problems) = 0
  \/ call.config = NoConfig

\* C7: in every layout that calculateLayout returns, no two positioned
\* problems' rectangles intersect; rectangles that only share an edge do
\* not count as intersecting.
C7_NoOverlap == IsLayout(layoutResult) => NoTwoIntersect(layoutResult)

\* A returned layout of the maximum problem count in three columns: many
\* rows, three rectangles in each.
C7_Witness ==
  /\ IsLayout(layoutResult)
  /\ layoutResult.metadata.totalProblems = ProblemCountMax
  /\ layoutResult.metadata.columns = 3

\* C8: in every layout that calculateLayout returns, every positioned
\* problem has 0 <= x, 0 <= y, x + width <= pageSize.width and
\* y + height <= pageSize.height.
C8_InBounds == IsLayout(layoutResult) => AllInsidePage(layoutResult)

\* A returned layout of the maximum problem count in two columns: the
\* layout with the most rows a configuration can ask for.
C8_Witness ==
  /\ IsLayout(layoutResult)
  /\ layoutResult.metadata.totalProblems = ProblemCountMax
  /\ layoutResult.metadata.columns = 2

\* C9: calculateLayout throws whenever the problem list is absent or empty
\* or the configuration is absent; whatever it hands back is a layout that
\* passes the final validation (a computed layout that fails it is thrown
\* away); and a call that throws leaves currentLayout as it was.
C9_FailsAsAWhole ==
  /\ []((layoutArgs # NoCall /\ FailingArguments(layoutArgs))
          => layoutResult = Thrown)
  /\ []((layoutArgs # NoCall /\ layoutResult # Thrown)
          => /\ IsLayout(layoutResult)
             /\ \A k \in 1 .. Len(layoutResult.problems) :
                  /\ layoutResult.problems[k].position.width > 0
                  /\ layoutResult.problems[k].position.height > 0
             /\ NoTwoIntersect(layoutResult)
             /\ AllInsidePage(layoutResult))
  /\ [][(layoutArgs' # NoCall /\ layoutResult' = Thrown)
          => currentLayout' = currentLayout]_vars

\* A call with a list and a configuration that threw (its layout failed
\* the final validation) while the engine holds the layout of an earlier
\* call.
C9_Witness ==
  /\ layoutArgs # NoCall
  /\ ~FailingArguments(layoutArgs)
  /\ layoutResult = Thrown
  /\ IsLayout(currentLayout)

\* C10: a call with a list of 1 to 50 problems and a configuration of
\* either layout returns a layout, which is then the stored layout.
C10_SucceedsUpToMaximum ==
  (/\ layoutArgs # NoCall
   /\ ~FailingArguments(layoutArgs)
   /\ Len(layoutArgs.problems) <= ProblemCountMax)
    => IsLayout(layoutResult) /\ currentLayout = layoutResult

\* The call with 50 problems in two columns has returned its layout of 25
\* rows.
C10_Witness ==
  /\ layoutArgs # NoCall
  /\ ~FailingArguments(layoutArgs)
  /\ Len(layoutArgs.problems) = ProblemCountMax
  /\ layoutArgs.config.layout = "twoColumn"
  /\ IsLayout(layoutResult)
  /\ layoutResult.metadata.rows = 25

(***************************************************************************)
(* Properties of the positions calculateLayout returns.                    *)
(***************************************************************************)
\* The layout of the last call before its optimisation passes.
UnoptimizedLayout ==
  computeLayout(layoutArgs.problems, layoutArgs.config, Environment)

\* C11: in every returned layout every input problem has one entry, and
\* the entry of the problem given at index i (from 0) carries index = i,
\* column = i mod c and row = floor(i / c), c being the layout's 2 or 3
\* columns; these are the row, column and index the entry had before the
\* optimisation passes.
C11_RowColumnIndex ==
  IsLayout(layoutResult) =>
    LET c == layoutResult.layoutConfig.columns
        n == Len(layoutArgs.problems)
    IN /\ c \in {2, 3}
       /\ \A ix \in 0 .. n - 1 :
            \E k \in 1 .. Len(layoutResult.problems) :
              layoutResult.problems[k].problem = layoutArgs.problems[ix + 1]
       /\ \A k \in 1 .. Len(layoutResult.problems) :
            \E ix \in 0 .. n - 1 :
              /\ layoutResult.problems[k].problem = layoutArgs.problems[ix + 1]
              /\ layoutResult.problems[k].metadata.index = ix
              /\ layoutResult.problems[k].metadata.column = ix % c
              /\ layoutResult.problems[k].metadata.row = ix \div c
              /\ layoutResult.problems[k].metadata
                   = UnoptimizedLayout.problems[ix + 1].metadata

\* A returned three-column layout of 50 problems: 17 rows, the last one
\* with two problems.
C11_Witness ==
  /\ IsLayout(layoutResult)
  /\ layoutResult.metadata.columns = 3
  /\ Len(layoutArgs.problems) = ProblemCountMax
  /\ \E k \in 1 .. Len(layoutResult.problems) :
       /\ layoutResult.problems[k].metadata.row = 16
       /\ layoutResult.problems[k].metadata.column = 1

EstimatedHeight ==
  calculateProblemDimensions(0, getFontConfig(Environment), layoutResult.den).height

AvailableHeight ==
  layoutResult.pageSize.height - layoutResult.margins.top
    - layoutResult.margins.bottom

RowCount ==
  CeilDiv(Len(layoutArgs.problems), layoutResult.layoutConfig.columns)

\* C13 as stated: every positioned problem's height is
\* max(estimatedHeight, availableHeight / rowCount).
C13_HeightAsClaimed ==
  IsLayout(layoutResult) =>
    \A k \in 1 .. Len(layoutResult.problems) :
      layoutResult.problems[k].position.height * RowCount
        = Max(EstimatedHeight * RowCount, AvailableHeight * layoutResult.den)

\* C13, amended: every positioned problem's height is
\* max(estimatedHeight,
\*     (availableHeight - (rowCount - 1) * verticalSpacing) / rowCount):
\* the rows share what the page leaves after the spacing between them.
C13_HeightAfterSpacing ==
  IsLayout(layoutResult) =>
    \A k \in 1 .. Len(layoutResult.problems) :
      layoutResult.problems[k].position.height * RowCount
        = Max(EstimatedHeight * RowCount,
              (AvailableHeight
                 - (RowCount - 1) * layoutResult.layoutConfig.spacing.vertical)
                * layoutResult.den)

\* A returned two-column layout of 26 rows whose height is the estimate,
\* which is more than the share of the page the rows would get.
C13_Witness ==
  /\ IsLayout(layoutResult)
  /\ layoutResult.metadata.columns = 2
  /\ RowCount = 26
  /\ Len(layoutResult.problems) = 52
  /\ layoutResult.problems[1].position.height = EstimatedHeight
  /\ layoutResult.problems[52].position.height * RowCount
       > (AvailableHeight
            - (RowCount - 1) * layoutResult.layoutConfig.spacing.vertical)
           * layoutResult.den

\* A list of positioned problems is in the input order of the last call.
InInputOrder(positions) ==
  /\ Len(positions) = Len(layoutArgs.problems)
  /\ \A k \in 1 .. Len(positions) :
       positions[k].problem = layoutArgs.problems[k]

\* C14: the list of positioned problems of a returned layout, and the list
\* optimizeSpacing makes of that layout when it is applied again, have as
\* many entries as the input and hold the k-th input problem at place k.
C14_InputOrder ==
  IsLayout(layoutResult) =>
    /\ InInputOrder(layoutResult.problems)
    /\ InInputOrder(optimizeSpacing(layoutResult).problems)

\* A returned three-column layout of 50 problems whose last entry is the
\* last input problem, in the second column of row 16.
C14_Witness ==
  /\ IsLayout(layoutResult)
  /\ Len(layoutResult.problems) = ProblemCountMax
  /\ layoutResult.layoutConfig.columns = 3
  /\ layoutResult.problems[ProblemCountMax].problem
       = layoutArgs.problems[ProblemCountMax]
  /\ layoutResult.problems[ProblemCountMax].position.x
       > layoutResult.problems[ProblemCountMax - 1].position.x

\* The sequence of (x, y, width, height, row, column, index) of a layout,
\* with the denominator of its coordinates.
PositionSequence(layout) ==
  <<layout.den,
    [k \in 1 .. Len(layout.problems) |->
       <<layout.problems[k].position.x, layout.problems[k].position.y,
         layout.problems[k].position.width, layout.problems[k].position.height,
         layout.problems[k].metadata.row, layout.problems[k].metadata.column,
         layout.problems[k].metadata.index>>]>>

\* What a newly constructed engine returns for the arguments of the last
\* call.
FreshResult ==
  calculateLayout(layoutArgs.problems, layoutArgs.config, Environment)

IsNat(v) == NumberIsInteger(v) /\ v >= 0

WellFormedArguments(a) ==
  /\ IsNat(a.operand1)
  /\ IsNat(a.operand2)
  /\ IsNat(a.result)
  /\ \/ a.operator = "+" /\ a.result = a.operand1 + a.operand2
     \/ a.operator = "-" /\ a.result = a.operand1 - a.operand2

\* C16: a construction succeeds exactly when its arguments are well
\* formed, and then the Problem holds them; in every other case it throws
\* and nothing is obtained.
C16_ConstructionExact ==
  constructorArgs # NoCall =>
    IF WellFormedArguments(constructorArgs)
      THEN /\ constructed # Thrown
           /\ constructed.operand1 = constructorArgs.operand1
           /\ constructed.operand2 = constructorArgs.operand2
           /\ constructed.operator = constructorArgs.operator
           /\ constructed.result = constructorArgs.result
      ELSE constructed = Thrown

\* new MathProblem(2, 3, '-', -1) has thrown: the result is the right
\* difference, but negative.
C16_Witness ==
  /\ constructorArgs # NoCall
  /\ constructorArgs.operator = "-"
  /\ NumberIsInteger(constructorArgs.operand1) /\ constructorArgs.operand1 = 2
  /\ NumberIsInteger(constructorArgs.operand2) /\ constructorArgs.operand2 = 3
  /\ NumberIsInteger(constructorArgs.result) /\ constructorArgs.result = -1
  /\ constructed = Thrown

(***************************************************************************)
(* Properties of WorksheetConfig.                                          *)
(***************************************************************************)
\* A supplied value of the object violates the data model of a
\* Configuration.
ViolatesDataModel(o) ==
  \/ ~IsUndefined(o.difficulty) /\ o.difficulty \notin Difficulties
  \/ ~IsUndefined(o.operationType) /\ o.operationType \notin OperationTypes
  \/ ~IsUndefined(o.layout) /\ o.layout \notin LayoutNames
  \/ ~IsUndefined(o.backgroundStyle) /\ o.backgroundStyle \notin BackgroundStyles
  \/ /\ ~IsUndefined(o.problemCount)
     /\ ~(/\ NumberIsInteger(o.problemCount)
          /\ o.problemCount >= 1
          /\ o.problemCount <= 50)
  \/ o.backgroundStyle = "custom" /\ o.customBackgroundUrl \in {Undefined, ""}

\* C17: a construction whose options hold a value that violates the data
\* model (an enum value outside its enum, a problemCount that is not an
\* integer in [1,50], 0 included, or the custom background without a URL)
\* throws; no such value is replaced by a default.
C17_InvalidOptionsThrow ==
  (supplied # NoCall /\ supplied.call = "new" /\ ViolatesDataModel(supplied.object))
    => configThrew

\* C18: at every moment after its construction, whatever updates were
\* called and whether or not they threw, the instance satisfies its
\* validation rules.
C18_AlwaysValid ==
  worksheetConfig # NoConfig => validateWorksheetConfig(worksheetConfig)

(***************************************************************************)
(* Properties of generateProblemsWithRatioControl.                         *)
(***************************************************************************)
\* addition + subtraction of the last call, in thousandths.
RatioSum == ratioOf(ratioConfig).addition + ratioOf(ratioConfig).subtraction

DifficultyRange == MinNumber .. MaxNumber

\* The least usage count over the range.
MinUsage ==
  CHOOSE u \in {getNumberUsage(numberUsageTracker, v) : v \in DifficultyRange} :
    \A v \in DifficultyRange : u <= getNumberUsage(numberUsageTracker, v)

\* The value's usage count is at most 1 above the least one.
LeastUsed(v) == getNumberUsage(numberUsageTracker, v) <= MinUsage + 1

\* C20: in a run of generateProblems over a difficulty range of at most
\* 20 values, the operands of every problem added to the list were, by
\* the usage counts before their draw, at most 1 above the least usage
\* count of the range.
C20_DrawnFromLeastUsed ==
  [][(/\ pc = "generating"
      /\ Cardinality(DifficultyRange) <= 20
      /\ Len(problems') = Len(problems) + 1)
     => /\ LeastUsed(problems'[Len(problems')].operand1)
        /\ LeastUsed(problems'[Len(problems')].operand2)]_vars

(***************************************************************************)
(* Properties of the tracking state of the generator.                      *)
(***************************************************************************)
\* A generation call is at the start of its first iteration.
CallStarted ==
  /\ pc \in {"generating", "ratio", "constrained"}
  /\ i = 0
  /\ attempts = 0

\* C21: every generation call starts its first iteration with an empty
\* set of signatures and with no usage count, whatever calls were made on
\* the generator before.
C21_StartsFromEmptyTracking ==
  CallStarted => generatedProblems = {} /\ numberUsageTracker = EmptyTracker

(***************************************************************************)
(* Properties of ConfigurationManager.                                     *)
(***************************************************************************)
\* The configuration the last call on the manager was about.
CalledConfig == instances[managerCall.config]

\* The number of distinct problems of a difficulty and an operation type:
\* range^2 for addition, range * (range + 1) / 2 for subtraction.
MaxDistinct(c) ==
  LET range == DIFFICULTY_LEVELS[c.difficulty].maxNumber
               - DIFFICULTY_LEVELS[c.difficulty].minNumber + 1
  IN IF c.operationType = "addition" THEN range * range
     ELSE (range * (range + 1)) \div 2

\* C22: validateConfig of a configuration whose problemCount exceeds the
\* number of distinct problems of its difficulty and its operation type
\* (addition or subtraction) reports it invalid, with the error 'exceeds
\* maximum possible unique problems'.
C22_ExceedingCountReported ==
  (/\ managerCall # NoCall
   /\ managerCall.call = "validateConfig"
   /\ managerCall.config # 0
   /\ CalledConfig.difficulty \in Difficulties
   /\ CalledConfig.operationType \in {"addition", "subtraction"}
   /\ NumberIsInteger(CalledConfig.problemCount)
   /\ CalledConfig.problemCount > MaxDistinct(CalledConfig))
  => /\ ~validation.isValid
     /\ "exceeds maximum possible unique problems" \in validation.errors

\* C28: after any calls of createConfig, updateConfig and
\* setCurrentConfig, whether or not they threw, getCurrentConfig() is null
\* or a configuration that validateConfig reports valid.
C28_CurrentConfigValid ==
  currentConfig # 0 => validateConfig(instances[currentConfig]).isValid

(***************************************************************************)
(* Properties of the preview.                                              *)
(***************************************************************************)
\* Request k was followed by another one less than the delay later.
Superseded(k) ==
  k < Len(requests) /\ requests[k + 1] - requests[k] < debounceDelay

\* Request k was followed by no other one until after its delay.  (A
\* request made exactly one delay later is neither: the callback and the
\* request are due at the same time.)
Undisturbed(k) ==
  k = Len(requests) \/ requests[k + 1] - requests[k] > debounceDelay

\* The renders started by the timer of request k.
RendersOf(k) == {r \in DOMAIN renders : renders[r].timer = k}

\* C23: of requests that follow each other by less than the debounce
\* delay, a superseded one starts no renderPreview; the last one starts
\* exactly one, one delay after it was made, and none before.
C23_OneRenderAfterLastRequest ==
  \A k \in DOMAIN requests :
    /\ Superseded(k) => RendersOf(k) = {}
    /\ Cardinality(RendersOf(k)) <= 1
    /\ \A r \in RendersOf(k) : renders[r].at = requests[k] + debounceDelay
    /\ (Undisturbed(k) /\ now > requests[k] + debounceDelay) => RendersOf(k) # {}

\* Three requests were made 100 ms apart, and the only render so far was
\* started 300 ms after the third.
C23_Witness ==
  /\ Len(requests) = 3
  /\ requests[2] - requests[1] = ClockStep
  /\ requests[3] - requests[2] = ClockStep
  /\ Len(renders) = 1
  /\ renders[1].timer = 3
  /\ renders[1].at = requests[3] + debounceDelay

(***************************************************************************)
(* Properties of the JSON round trip of a WorksheetConfig.                 *)
(***************************************************************************)
\* C24: for a valid configuration c, WorksheetConfig.fromJSON(c.toJSON())
\* does not throw and returns a configuration that c.equals.
C24_RoundTripEqual ==
  (restored # NoConfig /\ validateWorksheetConfig(worksheetConfig))
    => restored # Thrown /\ equals(worksheetConfig, restored)

(***************************************************************************)
(* Properties of the operators of the returned problems.                   *)
(***************************************************************************)
\* The number of problems of a list with the given operator.
operatorCountOf(list, operator) ==
  Cardinality({ix \in DOMAIN list : list[ix].operator = operator})

\* A returned call of generateProblemsWithRatioControl in mixed mode with
\* a count n and a ratio {addition: r, subtraction: 1 - r}.
RatioCallReturned ==
  /\ pc = "returned"
  /\ config.operationType = "mixed"
  /\ count # NoCount
  /\ ratioConfig # NoRatio
  /\ ratioConfig.addition + ratioConfig.subtraction = RatioScale

\* C25: in mixed mode, generateProblemsWithRatioControl(config, n, {addition:
\* r, subtraction: 1 - r}) returns exactly n problems, round(n*r) of them
\* additions and n - round(n*r) subtractions.
C25_ExactRatioCounts ==
  RatioCallReturned =>
    /\ Len(problems) = count
    /\ operatorCountOf(problems, "+") = additionTargetOf(count, ratioConfig)
    /\ operatorCountOf(problems, "-") = count - additionTargetOf(count, ratioConfig)

\* C25, for the counts from 1: the same with n >= 1, which is what the
\* loop gives.
C25_ExactRatioCountsFromOne ==
  (RatioCallReturned /\ count >= 1) =>
    /\ Len(problems) = count
    /\ operatorCountOf(problems, "+") = additionTargetOf(count, ratioConfig)
    /\ operatorCountOf(problems, "-") = count - additionTargetOf(count, ratioConfig)

\* A returned call of generateBalancedProblems in mixed mode with a count
\* n >= 1 and an additionRatio in [0, 1].
BalancedCallReturned ==
  /\ balanced # NoCall
  /\ balanced.phase = "returned"
  /\ balanced.config.operationType = "mixed"
  /\ balanced.count >= 1

\* C26: in mixed mode, generateBalancedProblems(config, n, additionRatio)
\* with n >= 1 and additionRatio in [0, 1] returns exactly n problems,
\* round(n * additionRatio) of them additions and the rest subtractions.
C26_BalancedCounts ==
  BalancedCallReturned =>
    /\ Len(problems) = balanced.count
    /\ operatorCountOf(problems, "+") =
         balancedAdditionCount(balanced.count, balanced.additionRatio)
    /\ operatorCountOf(problems, "-") = balanced.count -
         balancedAdditionCount(balanced.count, balanced.additionRatio)

\* C27: in mixed mode, a list of at least 2 problems returned by
\* generateProblems holds at least one addition and at least one
\* subtraction.
C27_MixedHasBothOperators ==
  (/\ pc = "returned"
   /\ config # NoConfig
   /\ config.operationType = "mixed"
   /\ problemCount >= 2)
    => /\ operatorCountOf(problems, "+") >= 1
       /\ operatorCountOf(problems, "-") >= 1

(***************************************************************************)
(* Properties of the configuration history.                                *)
(***************************************************************************)
\* The configuration whose save made entry k of the history.
savedAs(k) == accepted[Len(accepted) - Len(configHistory) + k]

\* The last call was a saveToHistory of a configuration equal to the
\* latest entry.
SavedEqualToLatest ==
  /\ historyCall # NoCall
  /\ historyCall.call = "saveToHistory"
  /\ historyCall.config # NotAnInstance
  /\ Len(historyCall.before) > 0
  /\ equals(historyCall.config, historyCall.before[Len(historyCall.before)])

\* The history holds at most maxHistorySize entries, made by the most
\* recent accepted saves in their order, and a save equal to the latest
\* entry changed nothing.
HistoryBoundedInOrder ==
  /\ Len(configHistory) = Min(Len(accepted), maxHistorySize)
  /\ SavedEqualToLatest => configHistory = historyCall.before

\* C29: the history holds at most 10 entries, which are clones of the most
\* recent accepted saves in save order, and a save equal to the latest
\* entry leaves the history unchanged.
C29_HistoryOfRecentSaves ==
  /\ HistoryBoundedInOrder
  /\ \A k \in DOMAIN configHistory : equals(savedAs(k), configHistory[k])

\* C29, with clone() as it is: every entry is what clone() returns for the
\* configuration saved, which is what the history gives.
C29_HistoryOfRecentClones ==
  /\ HistoryBoundedInOrder
  /\ \A k \in DOMAIN configHistory : configHistory[k] = clone(savedAs(k))

(***************************************************************************)
(* Properties of the ImageExporter.                                        *)
(***************************************************************************)
\* C30: at most one exportAndDownload or exportAndShare call is in flight;
\* a call is rejected exactly when it was made while another was in
\* flight, and that one is not disturbed; isExporting is true exactly
\* while a call is in flight.
C30_OneExportInFlight ==
  /\ Cardinality(inFlight) <= 1
  /\ isExporting <=> inFlight # {}
  /\ \A k \in DOMAIN operations :
       /\ operations[k].stage = "rejected" <=> operations[k].found # {}
       /\ \A j \in operations[k].found : operations[j].stage # "rejected"

\* A call was rejected while another, made after one that completed and
\* one that failed, was in flight, and that one still is.
C30_Witness ==
  \E a \in DOMAIN operations, b \in DOMAIN operations, j \in inFlight, k \in DOMAIN operations :
    /\ operations[a].stage = "completed"
    /\ operations[b].stage = "failed"
    /\ a < j /\ b < j /\ j < k
    /\ operations[k].stage = "rejected"
    /\ operations[k].found = {j}
    /\ isExporting

=============================================================================
